---- MODULE Spec2Model ----
(***************************************************************************)
(* Dream-Color: the raster post-processing pipeline of the activity-book   *)
(* generator.                                                              *)
(*                                                                         *)
(*   processColorByNumber  region segmentation ("color by number")         *)
(*   generateTracePage     handwriting worksheet compositor                *)
(*   generateImage         the dispatcher that calls one of them           *)
(*                                                                         *)
(* Pixel indices, coordinates and queue positions are 0-based as in the    *)
(* source.  Lengths with fractional parts (row offsets, guide lines) are   *)
(* kept exact in hundredths of a pixel.                                    *)
(***************************************************************************)
EXTENDS Integers, Sequences, FiniteSets, TLC

VARIABLES
    \* ---- processColorByNumber ------------------------------------------
    img,        \* the decoded input image: [w, h, bg, rects]
    fault,      \* what the environment makes fail in this call
    pc,         \* position inside processColorByNumber
    x, y,       \* the seed scan's loop variables
    visited,    \* Int8Array(width*height): the set of indices holding 1
    q,          \* Int32Array(width*height): the entries written so far
    head, tail, \* queue indices of the current fill
    fill,       \* accumulators of the current fill: count, sumX, sumY, box
    regions,    \* accepted regions, in push order
    canvas,     \* what has been drawn over the blitted image
    promise,    \* the promise processColorByNumber returned
    giPromise,  \* the promise of the enclosing generateImage call
    touched,    \* pixel-array indices read or written by the last step
    enqueues,   \* number of q[tail++] = ... executed in this run
    enqueued,   \* the pixel indices those statements stored
    call,       \* 1 for the first call on this image, 2 for a repeated call
    firstOut,   \* what the first call produced (kept for the repeated call)
    added,      \* <<from, to>> for each pixel the last fill step enqueued
    fills,      \* the fills that have ended in this run, in order
    resolves,   \* number of resolve(...) calls made on the current promise
    \* ---- generateTracePage and its callers -----------------------------
    description, \* the scene description, a sequence of characters
    fontId,      \* the selected font
    tFault,      \* which canvas facility the environment withholds
    measured,    \* what ctx.measureText returns: [pair, pairWithSpace]
    tpc,         \* position inside generateTracePage and its callers
    letters,     \* the parsed characters
    rowHeight, fontSize,
    layoutY,     \* the vertical cursor of the rows, in pixels
    done,        \* number of letters for which both rows are drawn
    page,        \* the main canvas: header, guide lines, composited glyphs
    textCanvas,  \* the separate glyph canvas
    returned,    \* how generateTracePage ended: value or exception
    tracePromise, \* the promise of the enclosing generateImage call
    appState,    \* the AppState of the book generation awaiting the page
    tcall,       \* 1 for the first call, 2 for a repeated call
    firstRun,    \* row height, font size and page of the first call
    \* ---- generateImage -------------------------------------------------
    mode, type, ageGroup, \* the arguments of the call
    response,    \* what the generative service will answer
    rendering,   \* how the render function that is called will end
    gpc,         \* position inside generateImage
    prompt,      \* the prompt that was built: [kind, style]
    serviceCalls, \* number of ai.models.generateContent calls made
    applied,     \* the render functions called, with their argument
    result,      \* the promise generateImage returned
    \* ---- generateScenes, trace mode ------------------------------------
    pageCount,   \* the argument of the call
    ppc,         \* position inside generateScenes and its consumer
    planI,       \* the loop variable i
    scenes,      \* the scenes pushed so far: [id, description]
    slices, \* the slice of the alphabet each pushed scene was built from
    parsed,      \* what generateTracePage parses out of each returned scene
    \* ---- App: handleStart, generateBookImages, handleReset, storage ----
    state,       \* the AppState
    theme,       \* the theme and child name typed in the form
    bookData,    \* [theme, scenes, images]; an image is [id, type, stale]
    progress,    \* the progress shown, as setProgress left it
    saved,       \* what localStorage holds under the storage key
    runs,        \* the handleStart calls that are awaiting something
    lastEvent,   \* the last of: page load, handleStart, handleReset
    interrupted  \* handleReset has run while a handleStart call was awaiting

segVars == <<img, fault, pc, x, y, visited, q, head, tail, fill, regions,
             canvas, promise, giPromise, touched, enqueues, enqueued, call,
             firstOut, added, fills, resolves>>

traceVars == <<description, fontId, tFault, measured, tpc, letters, rowHeight,
               fontSize, layoutY, done, page, textCanvas, returned,
               tracePromise, appState, tcall, firstRun>>

genVars == <<mode, type, ageGroup, response, rendering, gpc, prompt,
             serviceCalls, applied, result>>

planVars == <<pageCount, ppc, planI, scenes, slices, parsed>>

bookVars == <<state, theme, bookData, progress, saved, runs, lastEvent,
              interrupted>>

vars == <<segVars, traceVars, genVars, planVars, bookVars>>

-----------------------------------------------------------------------------
(* Bounds of the model *)

ImgW == 28
ImgH == 72
PlanPages == 27
MaxScenes == 2
MaxRuns == 1

-----------------------------------------------------------------------------
(* Program constants of processColorByNumber *)

Border == 10
Stride == 4
WhiteThreshold == 200
MinRegionSize == 800
LabelCycle == 5

(* colours: <<r, g, b>> *)
Black == <<0, 0, 0>>
White == <<255, 255, 255>>
Grey200 == <<200, 200, 200>>
PureRed == <<255, 0, 0>>

(* what a typed array yields for an index outside it *)
Undefined == <<-1, -1, -1>>

Abs(n) == IF n < 0 THEN -n ELSE n

(* JavaScript's % : the sign of the result follows the dividend *)
JsMod(a, b) == IF a >= 0 THEN a % b ELSE -((-a) % b)

(* Math.floor(a / b) for a >= 0, b > 0 *)
FloorDiv(a, b) == a \div b

Rect(x0, y0, x1, y1, col) == [x0 |-> x0, y0 |-> y0, x1 |-> x1, y1 |-> y1, col |-> col]

Image(w, h, bg, rects) == [w |-> w, h |-> h, bg |-> bg, rects |-> rects]

RECURSIVE Paint(_, _, _, _, _)
Paint(rects, i, px, py, col) ==
    IF i > Len(rects) THEN col
    ELSE LET r == rects[i]
         IN  Paint(rects, i + 1, px, py,
                   IF px >= r.x0 /\ px <= r.x1 /\ py >= r.y0 /\ py <= r.y1
                   THEN r.col ELSE col)

(* the colour of pixel (px, py) of the decoded image *)
PixelAt(im, px, py) == Paint(im.rects, 1, px, py, im.bg)

NumPixels(im) == im.w * im.h

InBuffer(im, i) == i >= 0 /\ i < NumPixels(im)

(* data[i*4], data[i*4+1], data[i*4+2] of the snapshot getImageData took *)
Data(im, i) ==
    IF InBuffer(im, i) THEN PixelAt(im, i % im.w, i \div im.w) ELSE Undefined

(* comparisons against undefined are false *)
Below(c, k) == c >= 0 /\ c < k
Above(c, k) == c >= 0 /\ c > k

(* mutant: the comparison of the seed test is inverted *)
SeedIsBright(px) ==
    Above(px[1], WhiteThreshold) \/ Above(px[2], WhiteThreshold) \/ Above(px[3], WhiteThreshold)

(* the seed test: any channel < 200 *)
SeedIsDark(px) ==
    Below(px[1], WhiteThreshold) \/ Below(px[2], WhiteThreshold) \/ Below(px[3], WhiteThreshold)

(* the neighbour test: every channel > 200 *)
NeighbourIsWhite(px) ==
    Above(px[1], WhiteThreshold) /\ Above(px[2], WhiteThreshold) /\ Above(px[3], WhiteThreshold)

(* the interior check of an accepted region: the red channel alone *)
CentroidIsWhite(px) == Above(px[1], WhiteThreshold)


-----------------------------------------------------------------------------
(* The seed scan: for (y = 10; y < height - 10; y += 4)                     *)
(*                  for (x = 10; x < width - 10; x += 4)                    *)

NoSeed == [x |-> -1, y |-> -1]

HasSeedRow(im) == Border < im.h - Border
HasSeedCol(im) == Border < im.w - Border

(* mutant: the loop variables are never increased *)
NextSeedStuck(im, sx, sy) == [x |-> sx, y |-> sy]

(* the first iteration of the nested loops, NoSeed when there is none *)
FirstSeed(im) ==
    IF HasSeedRow(im) /\ HasSeedCol(im) THEN [x |-> Border, y |-> Border] ELSE NoSeed

(* the iteration after (sx, sy), NoSeed when both loops have ended *)
NextSeed(im, sx, sy) ==
    IF sx + Stride < im.w - Border THEN [x |-> sx + Stride, y |-> sy]
    ELSE IF sy + Stride < im.h - Border THEN [x |-> Border, y |-> sy + Stride]
    ELSE NoSeed

(* the iterations the loops go through, as a set of coordinates *)
SeedPoints(im) ==
    { p \in (0 .. im.w - 1) \X (0 .. im.h - 1) :
        /\ p[1] >= Border /\ p[1] < im.w - Border /\ (p[1] - Border) % Stride = 0
        /\ p[2] >= Border /\ p[2] < im.h - Border /\ (p[2] - Border) % Stride = 0 }

-----------------------------------------------------------------------------
(* The flood fill *)

NoFill == [count |-> 0, sumX |-> 0, sumY |-> 0,
           minX |-> 0, maxX |-> 0, minY |-> 0, maxY |-> 0]

(* q[i] = v; the entries never written keep the 0 they were allocated with
   and are never read, so q holds the written prefix only *)
QueueWrite(im, qq, i, v) ==
    IF ~InBuffer(im, i) THEN qq
    ELSE IF i < Len(qq) THEN [qq EXCEPT ![i + 1] = v]
    ELSE Append(qq, v)

(* mutant: the lower bound of the range check is missing *)
NeighbourBelowEnd(im, nIdx) == nIdx < im.w * im.h

(* nIdx >= 0 && nIdx < width * height *)
NeighbourInRange(im, nIdx) == nIdx >= 0 /\ nIdx < im.w * im.h

(* mutant: the wrap check is missing *)
NeverWraps(nx, cx) == FALSE

(* Math.abs(nx - cx) > 1: the neighbour lies on another row's far edge *)
Wraps(nx, cx) == Abs(nx - cx) > 1

(* [currIdx - 1, currIdx + 1, currIdx - width, currIdx + width] *)
Neighbours(im, currIdx) ==
    <<currIdx - 1, currIdx + 1, currIdx - im.w, currIdx + im.w>>

(* mutant: an enqueued neighbour is not marked visited *)
VisitNeighbourUnmarked(im, st, nIdx, cx) ==
    IF NeighbourInRange(im, nIdx) /\ nIdx \notin st.visited
       /\ ~Wraps(JsMod(nIdx, im.w), cx) /\ NeighbourIsWhite(Data(im, nIdx))
    THEN [st EXCEPT !.q = QueueWrite(im, @, st.tail, nIdx),
                    !.touched = @ \cup {nIdx, st.tail},
                    !.tail = @ + 1,
                    !.enqueues = @ + 1,
                    !.enqueued = @ \cup {nIdx}]
    ELSE st

(* one pass of the body of  for (const nIdx of neighbors)  over the state
   st = [visited, q, tail, touched, enqueues, enqueued] *)
VisitNeighbour(im, st, nIdx, cx) ==
    IF NeighbourInRange(im, nIdx) /\ nIdx \notin st.visited
    THEN LET nx == JsMod(nIdx, im.w)
             seen == [st EXCEPT !.touched = @ \cup {nIdx}]
         IN  IF Wraps(nx, cx) THEN seen
             ELSE IF NeighbourIsWhite(Data(im, nIdx))
                  THEN [seen EXCEPT !.visited = @ \cup {nIdx},
                                    !.q = QueueWrite(im, @, st.tail, nIdx),
                                    !.touched = @ \cup {st.tail},
                                    !.tail = @ + 1,
                                    !.enqueues = @ + 1,
                                    !.enqueued = @ \cup {nIdx}]
                  ELSE seen
    ELSE IF NeighbourInRange(im, nIdx)
         THEN [st EXCEPT !.touched = @ \cup {nIdx}]
         ELSE st

RECURSIVE VisitNeighbours(_, _, _, _, _)
VisitNeighbours(im, st, ns, i, cx) ==
    IF i > Len(ns) THEN st
    ELSE VisitNeighbours(im, VisitNeighbour(im, st, ns[i], cx), ns, i + 1, cx)

(* count++, sumX += cx, sumY += cy and the bounding box *)
Accumulate(f, cx, cy) ==
    [count |-> f.count + 1, sumX |-> f.sumX + cx, sumY |-> f.sumY + cy,
     minX |-> IF cx < f.minX THEN cx ELSE f.minX,
     maxX |-> IF cx > f.maxX THEN cx ELSE f.maxX,
     minY |-> IF cy < f.minY THEN cy ELSE f.minY,
     maxY |-> IF cy > f.maxY THEN cy ELSE f.maxY]

(* mutant: a fill of exactly the minimum size passes *)
AtLeastMinimum(cnt) == cnt >= MinRegionSize

(* count > 800 *)
BigEnough(cnt) == cnt > MinRegionSize

(* mutant: the mean is rounded to the nearest pixel instead of down *)
RoundedCenterX(f) == (2 * f.sumX + f.count) \div (2 * f.count)

CenterX(f) == FloorDiv(f.sumX, f.count)
CenterY(f) == FloorDiv(f.sumY, f.count)

(* the test that decides whether the finished fill is pushed to regions *)
Accepts(im, f) ==
    /\ BigEnough(f.count)
    /\ CentroidIsWhite(Data(im, CenterY(f) * im.w + CenterX(f)))

(* mutant: the + 1 is missing *)
RandomIdsFromZero == 0 .. LabelCycle - 1

(* Math.floor(Math.random() * 5) + 1 *)
RandomIds == 1 .. LabelCycle

(* the five legend entries *)
legendColors ==
    << [id |-> 1, label |-> "Red",    color |-> "#EF4444"],
       [id |-> 2, label |-> "Blue",   color |-> "#3B82F6"],
       [id |-> 3, label |-> "Green",  color |-> "#22C55E"],
       [id |-> 4, label |-> "Yellow", color |-> "#EAB308"],
       [id |-> 5, label |-> "Purple", color |-> "#A855F7"] >>

(* an image value: the input string, or the canvas the call drew *)
BlankCanvas == [labels |-> <<>>, separator |-> FALSE, legend |-> <<>>]
NoValue == [kind |-> "none", drawn |-> BlankCanvas]
InputImage == [kind |-> "input", drawn |-> BlankCanvas]
ToDataURL(cv) == [kind |-> "annotated", drawn |-> cv]
ErrorValue == [kind |-> "error", drawn |-> BlankCanvas]

(* a promise; by names the statement that settled it *)
Pending == [state |-> "pending", value |-> NoValue, by |-> "none"]
Resolved(v, by) == [state |-> "resolved", value |-> v, by |-> by]
Rejected(v, by) == [state |-> "rejected", value |-> v, by |-> by]

-----------------------------------------------------------------------------
(* The input images the model runs on.  An image is a background colour
   and a list of filled rectangles painted over it in order. *)

(* one rectangle of colour col on black, on the largest canvas *)
OneRect(x0, y0, x1, y1, col) ==
    Image(ImgW, ImgH, Black, <<Rect(x0, y0, x1, y1, col)>>)

(* column ranges and row ranges of rectangles that do not touch the edge *)
ColRanges == { <<1, ImgW - 2>>, <<15, ImgW - 2>>, <<1, 20>>, <<5, 24>>, <<11, 13>> }
RowRanges == { <<1, 67>>, <<1, 31>>, <<11, 41>>, <<20, 59>>, <<30, 70>>, <<11, 13>> }

WhiteRectImages ==
    { OneRect(c[1], r[1], c[2], r[2], White) : c \in ColRanges, r \in RowRanges }

AllBlack == Image(ImgW, ImgH, Black, <<>>)
BlackOnBlack == OneRect(3, 3, 20, 40, Black)
AllWhite == Image(ImgW, ImgH, White, <<>>)

(* two white rectangles of 26 x 31 pixels, one black row apart *)
TwoRegions ==
    Image(ImgW, ImgH, Black,
          <<Rect(1, 1, 26, 31, White), Rect(1, 33, 26, 63, White)>>)

(* a white rectangle with a 3 x 3 hole of colour col around its centre *)
Ring(col) ==
    Image(ImgW, ImgH, Black,
          <<Rect(1, 1, 26, 41, White), Rect(12, 20, 14, 22, col)>>)

(* a rectangle whose channels all equal the threshold *)
GreyRect == OneRect(5, 5, 24, 30, Grey200)

(* one white row ending at the right edge, and a white block starting at the
   left edge of the next row *)
EdgeToEdge ==
    Image(ImgW, ImgH, Black,
          <<Rect(10, 10, ImgW - 1, 10, White), Rect(0, 11, 6, 13, White)>>)

(* two white rectangles of 234 and 780 pixels, a black row between them, and
   in that row one pixel at the first seed whose channels equal the threshold *)
GreyBridge ==
    Image(ImgW, ImgH, Black,
          <<Rect(1, 1, 26, 9, White), Rect(1, 11, 26, 40, White),
            Rect(10, 10, 10, 10, Grey200)>>)

(* a white rectangle of 520 pixels above one of 1092 pixels *)
SmallAndLarge ==
    Image(ImgW, ImgH, Black,
          <<Rect(1, 1, 26, 20, White), Rect(1, 22, 26, 63, White)>>)

(* images too small to hold a seed, and the smallest one that holds one *)
Empty == Image(0, 0, Black, <<>>)
NoSeedCols == Image(20, 50, White, <<>>)
OneSeed == Image(21, 21, White, <<>>)

Images ==
    WhiteRectImages \cup
    { AllBlack, BlackOnBlack, AllWhite, TwoRegions, Ring(Black), Ring(PureRed), GreyRect,
      GreyBridge, SmallAndLarge, EdgeToEdge, Empty, NoSeedCols, OneSeed }

(* the images a second call is made on *)
RepeatedImages == { OneRect(1, 1, ImgW - 2, 31, White), AllBlack, OneSeed }

(* the failures of the environment, and the images they are injected on *)
Faults == { "load_error", "no_ctx", "throw_setup", "throw_scan", "throw_fill",
            "throw_labels", "throw_legend" }
FaultImages == { OneSeed, Empty }

-----------------------------------------------------------------------------
(* processColorByNumber, one action per step *)

(* mutant: the mask outlives the call that allocated it *)
StaleVisited == visited

(* the arrays  new Int8Array(width * height)  and  regions = []  of a call *)
FreshVisited == {}
FreshRegions == <<>>

(* ctx.getImageData(0, 0, width, height) throws on an empty rectangle *)
GetImageDataThrows(im) == im.w = 0 \/ im.h = 0

(* the four places that settle the promise *)
NoContextSettles(v) == Resolved(v, "no_ctx")
SuccessSettles(v) == Resolved(v, "success")

(* mutant: the catch block rejects with the error *)
CatchRejects(v) == Rejected(ErrorValue, "catch")

CatchSettles(v) == Resolved(v, "catch")
OnErrorSettles(v) == Resolved(v, "onerror")

Settle(p) ==
    /\ promise' = p
    /\ resolves' = resolves + 1
    /\ pc' = "settled"

(* mutant: the seed scan does not look at the mask *)
SeedNeverVisited(v, idx) == FALSE

(* if (visited[idx]) continue; *)
SeedVisited(v, idx) == idx \in v

(* continue with the iteration after (x, y), or leave both loops *)
Advance ==
    LET n == NextSeed(img, x, y)
    IN  /\ x' = n.x
        /\ y' = n.y
        /\ pc' = IF n = NoSeed THEN "labels" ELSE "scan"

(* img.onerror *)
OnError ==
    /\ pc = "loading"
    /\ fault = "load_error"
    /\ Settle(OnErrorSettles(InputImage))
    /\ UNCHANGED <<img, fault, x, y, visited, q, head, tail, fill, regions,
                   canvas, giPromise, touched, enqueues, enqueued, call, firstOut,
                   added, fills>>
    /\ UNCHANGED <<traceVars, genVars, planVars, bookVars>>

(* img.onload up to the first iteration of the seed scan *)
OnLoad ==
    /\ pc = "loading"
    /\ fault # "load_error"
    /\ IF fault = "no_ctx" \/ fault = "throw_setup" \/ GetImageDataThrows(img)
       THEN /\ Settle(IF fault = "no_ctx" THEN NoContextSettles(InputImage)
                      ELSE CatchSettles(InputImage))
            /\ UNCHANGED <<x, y, visited, q, head, tail, fill, regions, canvas,
                           touched, enqueues, enqueued, added, fills>>
       ELSE LET s == FirstSeed(img)
            IN  /\ visited' = FreshVisited
                /\ regions' = FreshRegions
                /\ q' = <<>>
                /\ head' = 0
                /\ tail' = 0
                /\ fill' = NoFill
                /\ canvas' = BlankCanvas
                /\ touched' = {}
                /\ enqueues' = 0
                /\ enqueued' = {}
                /\ added' = {}
                /\ fills' = <<>>
                /\ x' = s.x
                /\ y' = s.y
                /\ pc' = IF s = NoSeed THEN "labels" ELSE "scan"
                /\ UNCHANGED <<promise, resolves>>
    /\ UNCHANGED <<img, fault, giPromise, call, firstOut>>
    /\ UNCHANGED <<traceVars, genVars, planVars, bookVars>>

(* one iteration of the seed loops, up to the start of a fill *)
SeedStep ==
    /\ pc = "scan"
    /\ LET idx == y * img.w + x
       IN  /\ touched' = IF SeedVisited(visited, idx) \/ SeedIsDark(Data(img, idx))
                         THEN {idx} ELSE {idx, 0}
           /\ IF SeedVisited(visited, idx)
              THEN /\ Advance
                   /\ UNCHANGED <<visited, q, head, tail, fill, enqueues, enqueued>>
              ELSE IF SeedIsDark(Data(img, idx))
              THEN /\ visited' = visited \cup {idx}
                   /\ Advance
                   /\ UNCHANGED <<q, head, tail, fill, enqueues, enqueued>>
              ELSE /\ head' = 0
                   /\ tail' = 1
                   /\ q' = QueueWrite(img, q, 0, idx)
                   /\ enqueues' = enqueues + 1
                   /\ enqueued' = enqueued \cup {idx}
                   /\ visited' = visited \cup {idx}
                   /\ fill' = [count |-> 0, sumX |-> 0, sumY |-> 0,
                               minX |-> x, maxX |-> x, minY |-> y, maxY |-> y]
                   /\ pc' = "fill"
                   /\ UNCHANGED <<x, y>>
    /\ added' = {}
    /\ UNCHANGED <<img, fault, regions, canvas, promise, giPromise, call, firstOut,
                   fills, resolves>>
    /\ UNCHANGED <<traceVars, genVars, planVars, bookVars>>

(* one iteration of  while (head < tail) *)
FillStep ==
    /\ pc = "fill"
    /\ head < tail
    /\ LET currIdx == q[head + 1]
           cx == JsMod(currIdx, img.w)
           cy == FloorDiv(currIdx, img.w)
           st == VisitNeighbours(img,
                     [visited |-> visited, q |-> q, tail |-> tail,
                      touched |-> {head}, enqueues |-> enqueues,
                      enqueued |-> enqueued],
                     Neighbours(img, currIdx), 1, cx)
       IN  /\ head' = head + 1
           /\ fill' = Accumulate(fill, cx, cy)
           /\ visited' = st.visited
           /\ q' = st.q
           /\ tail' = st.tail
           /\ touched' = st.touched
           /\ enqueues' = st.enqueues
           /\ enqueued' = st.enqueued
           /\ added' = { <<currIdx, nIdx>> : nIdx \in st.enqueued \ enqueued }
    /\ UNCHANGED <<img, fault, pc, x, y, regions, canvas, promise, giPromise,
                   call, firstOut, fills, resolves>>
    /\ UNCHANGED <<traceVars, genVars, planVars, bookVars>>

(* the fill's loop has ended: "Process Region", then the next seed *)
FillEnd ==
    /\ pc = "fill"
    /\ ~(head < tail)
    /\ IF BigEnough(fill.count)
       THEN /\ touched' = {CenterY(fill) * img.w + CenterX(fill)}
            /\ IF Accepts(img, fill)
               THEN \E id \in RandomIds :
                        regions' = Append(regions,
                            [x |-> CenterX(fill), y |-> CenterY(fill),
                             size |-> fill.count, id |-> id])
               ELSE UNCHANGED regions
       ELSE /\ touched' = {}
            /\ UNCHANGED regions
    /\ fills' = Append(fills, [seed |-> y * img.w + x,
                                pixels |-> { q[i] : i \in 1 .. tail },
                                count |-> fill.count,
                                x |-> CenterX(fill), y |-> CenterY(fill),
                                accepted |-> Accepts(img, fill)])
    /\ added' = {}
    /\ Advance
    /\ UNCHANGED <<img, fault, visited, q, head, tail, fill, canvas, promise,
                   giPromise, enqueues, enqueued, call, firstOut, resolves>>
    /\ UNCHANGED <<traceVars, genVars, planVars, bookVars>>

(* mutant: only the first region is labelled *)
StampOneLabel(rs) ==
    IF rs = <<>> THEN <<>>
    ELSE <<[text |-> rs[1].id, x |-> rs[1].x, y |-> rs[1].y]>>

(* regions.forEach(r => ctx.fillText(r.id.toString(), r.x, r.y)) *)
StampLabels(rs) == [i \in 1 .. Len(rs) |-> [text |-> rs[i].id, x |-> rs[i].x, y |-> rs[i].y]]

DrawNumbers ==
    /\ pc = "labels"
    /\ canvas' = [canvas EXCEPT !.labels = StampLabels(regions)]
    /\ pc' = "legend"
    /\ touched' = {}
    /\ UNCHANGED <<img, fault, x, y, visited, q, head, tail, fill, regions,
                   promise, giPromise, enqueues, enqueued, call, firstOut,
                   added, fills, resolves>>
    /\ UNCHANGED <<traceVars, genVars, planVars, bookVars>>

(* the separator, the five legend entries and resolve(canvas.toDataURL()) *)
DrawLegend ==
    /\ pc = "legend"
    /\ canvas' = [canvas EXCEPT !.separator = TRUE, !.legend = legendColors]
    /\ Settle(SuccessSettles(ToDataURL(canvas')))
    /\ UNCHANGED <<img, fault, x, y, visited, q, head, tail, fill, regions,
                   giPromise, touched, enqueues, enqueued, call, firstOut,
                   added, fills>>
    /\ UNCHANGED <<traceVars, genVars, planVars, bookVars>>

(* the stage of the try block an injected exception is thrown in *)
ThrowStage(f) ==
    CASE f = "throw_scan" -> "scan"
      [] f = "throw_fill" -> "fill"
      [] f = "throw_labels" -> "labels"
      [] f = "throw_legend" -> "legend"
      [] OTHER -> "never"

(* catch (e) { resolve(base64Image) } *)
Catch ==
    /\ pc = ThrowStage(fault)
    /\ Settle(CatchSettles(InputImage))
    /\ UNCHANGED <<img, fault, x, y, visited, q, head, tail, fill, regions,
                   canvas, giPromise, touched, enqueues, enqueued, call, firstOut,
                   added, fills>>
    /\ UNCHANGED <<traceVars, genVars, planVars, bookVars>>

(* generateImage:  return await processColorByNumber(finalBase64)  inside
   try { ... } catch { throw new Error("Failed to generate image.") } *)
AwaitPostProcessing(p) ==
    IF p.state = "resolved" THEN Resolved(p.value, "return")
    ELSE Rejected(ErrorValue, "throw")

GenerateImageReturn ==
    /\ pc = "settled"
    /\ giPromise' = AwaitPostProcessing(promise)
    /\ pc' = "returned"
    /\ UNCHANGED <<img, fault, x, y, visited, q, head, tail, fill, regions,
                   canvas, promise, touched, enqueues, enqueued, call, firstOut,
                   added, fills, resolves>>
    /\ UNCHANGED <<traceVars, genVars, planVars, bookVars>>

(* the caller invokes processColorByNumber again with the same image string *)
SecondCall ==
    /\ pc = "returned"
    /\ call = 1
    /\ fault = "none"
    /\ img \in RepeatedImages
    /\ call' = 2
    /\ firstOut' = giPromise.value
    /\ promise' = Pending
    /\ giPromise' = Pending
    /\ pc' = "loading"
    /\ resolves' = 0
    /\ UNCHANGED <<img, fault, x, y, visited, q, head, tail, fill, regions,
                   canvas, touched, enqueues, enqueued, added, fills>>
    /\ UNCHANGED <<traceVars, genVars, planVars, bookVars>>


-----------------------------------------------------------------------------
(* generateTracePage: strings are sequences of one-character strings *)

MaxLetters == 7

PageWidth == 1240
PageHeight == 1754
MarginX == 100
HeaderY == 150
HeaderAdvance == 120
BottomPadding == 100
MinRowHeight == 120
MaxRowHeight == 220
PatternSize == 16
PatternGap == 4
HeaderFontPx == 50

(* Program constants of generateScenes and of the page-count input *)
TotalLetters == 26
MinPageCount == 3
MaxPageCount == 10

UpperCase == <<"A", "B", "C", "D", "E", "F", "G", "H", "I", "J", "K", "L", "M",
               "N", "O", "P", "Q", "R", "S", "T", "U", "V", "W", "X", "Y", "Z">>
LowerCase == <<"a", "b", "c", "d", "e", "f", "g", "h", "i", "j", "k", "l", "m",
               "n", "o", "p", "q", "r", "s", "t", "u", "v", "w", "x", "y", "z">>

(* String.prototype.toLowerCase on one character *)
ToLowerCase(c) ==
    IF \E i \in 1 .. Len(UpperCase) : UpperCase[i] = c
    THEN LowerCase[CHOOSE i \in 1 .. Len(UpperCase) : UpperCase[i] = c]
    ELSE c

IsAt(str, sep, i) ==
    /\ i + Len(sep) - 1 <= Len(str)
    /\ SubSeq(str, i, i + Len(sep) - 1) = sep

(* String.prototype.split with a non-empty separator *)
RECURSIVE SplitFrom(_, _, _, _)
SplitFrom(str, sep, i, start) ==
    LET hits == { j \in i .. Len(str) : IsAt(str, sep, j) }
    IN  IF hits = {} THEN <<SubSeq(str, start, Len(str))>>
        ELSE LET j == CHOOSE j \in hits : \A k \in hits : j <= k
             IN  <<SubSeq(str, start, j - 1)>> \o
                 SplitFrom(str, sep, j + Len(sep), j + Len(sep))

Split(str, sep) == SplitFrom(str, sep, 1, 1)

(* String.prototype.trim *)
RECURSIVE TrimLeft(_)
TrimLeft(str) ==
    IF str # <<>> /\ Head(str) = " " THEN TrimLeft(Tail(str)) ELSE str

RECURSIVE TrimRight(_)
TrimRight(str) ==
    IF str # <<>> /\ str[Len(str)] = " "
    THEN TrimRight(SubSeq(str, 1, Len(str) - 1)) ELSE str

Trim(str) == TrimRight(TrimLeft(str))

(* description.split(": ")[1] || "" *)
LettersPart(desc) ==
    LET parts == Split(desc, <<":", " ">>)
    IN  IF Len(parts) >= 2 THEN parts[2] ELSE <<>>

(* .map(s => s.trim()).filter(l => l.length === 1), each kept as a character *)
RECURSIVE KeepSingles(_)
KeepSingles(tokens) ==
    IF tokens = <<>> THEN <<>>
    ELSE LET t == Trim(Head(tokens))
         IN  (IF Len(t) = 1 THEN <<t[1]>> ELSE <<>>) \o KeepSingles(Tail(tokens))

ParseLetters(desc) == KeepSingles(Split(LettersPart(desc), <<",">>))

(* fontMap[fontId] || 'Nunito, sans-serif' *)
HeaderFontFamily(f) ==
    CASE f = "helvetica" -> "Nunito, sans-serif"
      [] f = "chewy" -> "Chewy, cursive"
      [] f = "bangers" -> "Bangers, cursive"
      [] f = "patrick" -> "\"Patrick Hand\", cursive"
      [] OTHER -> "Nunito, sans-serif"

(* a JavaScript number that may be Infinity *)
Finite(n) == [inf |-> FALSE, n |-> n]
Infinity == [inf |-> TRUE, n |-> 0]

(* mutant: a division by zero gives 0 *)
ZeroOnZeroDivisor(a, b) == IF b = 0 THEN Finite(0) ELSE Finite(a \div b)

(* Math.floor(a / b) for a > 0, b >= 0: a division by zero gives Infinity *)
MathFloorDiv(a, b) == IF b = 0 THEN Infinity ELSE Finite(a \div b)

(* Math.max(k, v) and Math.min(k, v) for a finite k *)
MathMax(k, v) == IF v.inf THEN Infinity ELSE Finite(IF v.n > k THEN v.n ELSE k)
MathMin(k, v) == IF v.inf THEN k ELSE IF v.n < k THEN v.n ELSE k

(* availableHeight = height - currentY - 100, currentY = 150 + 120 *)
AvailableHeight == PageHeight - (HeaderY + HeaderAdvance) - BottomPadding

RowsNeeded(ls) == Len(ls) * 2

(* mutant: the lower clamp is missing *)
RowHeightUnclamped(ls) ==
    MathMin(MaxRowHeight, MathFloorDiv(AvailableHeight, RowsNeeded(ls)))

(* Math.min(220, Math.max(120, Math.floor(availableHeight / rowsNeeded))) *)
RowHeightFor(ls) ==
    MathMin(MaxRowHeight,
            MathMax(MinRowHeight, MathFloorDiv(AvailableHeight, RowsNeeded(ls))))

(* mutant: the factor is 0.6 *)
FontSizeSixty(rh) == (rh * 60) \div 100

(* Math.floor(rowHeight * 0.65) *)
FontSizeFor(rh) == (rh * 65) \div 100

(* drawGuides(y): the three lines, in hundredths of a pixel *)
DrawGuides(baseY, fs) ==
    [topline |-> baseY - fs * 105, midline |-> baseY - fs * 55, baseline |-> baseY]

(* layoutY + rowHeight * 0.75, in hundredths of a pixel *)
RowBaseY(ly, rh) == ly * 100 + rh * 75

(* the x positions the repeat row's while loop draws the pair at *)
RECURSIVE TileXs(_, _)
TileXs(textX, m) ==
    IF textX + m.pair < PageWidth - MarginX
    THEN <<textX>> \o TileXs(textX + m.pairWithSpace, m)
    ELSE <<>>

(* the width of the pair as tCtx draws it, in `700 ${fontSize}px Nunito`,
   given the width m.pair that ctx.measureText reports in the header font
   `600 50px Nunito`: the advance widths of a font scale with its size, and
   the bolder weight is not narrower *)
GlyphWidth(m, fs) == (m.pair * fs) \div HeaderFontPx

(* tCtx.fillText(pair, x, baseY - fontSize * 0.05) *)
Glyph(pair, gx, baseY, fs) == [text |-> pair, x |-> gx, y |-> baseY - fs * 5]

RepeatRow(pair, baseY, fs, m) ==
    LET xs == TileXs(MarginX + 20, m)
    IN  [i \in 1 .. Len(xs) |-> Glyph(pair, xs[i], baseY, fs)]

(* `${letter}${letter.toLowerCase()}` *)
Pair(letter) == <<letter, ToLowerCase(letter)>>

(* the pattern canvas: the strokes <<x0, y0, x1, y1>> drawn on it, none when
   no pattern was made *)
NoTile == [size |-> 0, lineWidth |-> 0, strokes |-> <<>>]
StripeTile ==
    [size |-> PatternSize, lineWidth |-> PatternGap,
     strokes |-> << <<0, 0, PatternSize, PatternSize>>,
                    <<-(PatternSize \div 2), -(PatternSize \div 2),
                      (PatternSize * 3) \div 2, (PatternSize * 3) \div 2>> >>]

BlankPage == [background |-> FALSE, header |-> <<>>, guides |-> <<>>, glyphs |-> <<>>,
              dashed |-> FALSE, tile |-> NoTile]
BlankText == [glyphs |-> <<>>, masked |-> FALSE, tile |-> NoTile]

(* mutant: the cursor of the rows is left where the previous call ended *)
LeftoverLayoutY == IF tcall = 2 THEN layoutY ELSE HeaderY + HeaderAdvance

(* let layoutY = currentY, after currentY += 120 *)
StartLayoutY == HeaderY + HeaderAdvance

Running == [how |-> "running", value |-> BlankPage]
Returns(v) == [how |-> "returned", value |-> v]
Throws == [how |-> "thrown", value |-> BlankPage]

TracePending == [state |-> "pending", value |-> BlankPage]
TraceResolved(v) == [state |-> "resolved", value |-> v]
TraceRejected == [state |-> "rejected", value |-> BlankPage]

-----------------------------------------------------------------------------
(* The descriptions, fonts and environments the compositor is run on *)

MaxTokens == 2

RECURSIVE Join(_, _)
Join(tokens, sep) ==
    IF tokens = <<>> THEN <<>>
    ELSE IF Len(tokens) = 1 THEN tokens[1]
    ELSE tokens[1] \o sep \o Join(Tail(tokens), sep)

(* "Handwriting practice for letters" *)
PlannerPrefix ==
    <<"H", "a", "n", "d", "w", "r", "i", "t", "i", "n", "g", " ",
      "p", "r", "a", "c", "t", "i", "c", "e", " ", "f", "o", "r", " ",
      "l", "e", "t", "t", "e", "r", "s">>

(* `Handwriting practice for letters: ${slices.join(', ')}` *)
SceneDescription(pageLetters) ==
    PlannerPrefix \o <<":", " ">> \o
    Join([i \in 1 .. Len(pageLetters) |-> <<pageLetters[i]>>], <<",", " ">>)

PlannerDescriptions ==
    { SceneDescription(SubSeq(UpperCase, 1, n)) : n \in 1 .. MaxLetters }

(* mutant: the letters per page are rounded down *)
LettersPerPageFloor(pages) == TotalLetters \div pages

(* Math.ceil(totalLetters / pageCount) *)
LettersPerPage(pages) == (TotalLetters + pages - 1) \div pages

(* `scene-${i}` *)
SceneId(i) == <<"scene-", i>>

(* alphabet.slice(startIdx, Math.min(startIdx + lettersPerPage, totalLetters)) *)
PageLetters(i, pages) ==
    LET startIdx == i * LettersPerPage(pages)
        endIdx == MathMin(TotalLetters, Finite(startIdx + LettersPerPage(pages)))
    IN  SubSeq(UpperCase, startIdx + 1, endIdx)

(* the scene pushed by iteration i *)
TraceScene(i, pages) ==
    [id |-> SceneId(i), description |-> SceneDescription(PageLetters(i, pages))]

(* the scenes generateScenes returns in trace mode *)
RECURSIVE ScenesFrom(_, _)
ScenesFrom(i, pages) ==
    IF i < pages /\ i * LettersPerPage(pages) < TotalLetters
    THEN <<TraceScene(i, pages)>> \o ScenesFrom(i + 1, pages)
    ELSE <<>>

TraceScenes(pages) == ScenesFrom(0, pages)

(* the page counts the range input offers *)
PageCounts == MinPageCount .. MaxPageCount

(* the descriptions the planner hands to generateTracePage for them *)
PlannedDescriptions ==
    UNION { { TraceScenes(pages)[k].description : k \in 1 .. Len(TraceScenes(pages)) } :
            pages \in PageCounts }

Tokens == { <<"A">>, <<"b">>, <<"A", "B">>, <<>>, <<" ", "C", " ">> }

TokenLists == UNION { [1 .. n -> Tokens] : n \in 0 .. MaxTokens }

OtherDescriptions ==
    { pre \o sep \o Join(ts, <<",">>) :
        pre \in { <<>>, <<"x">> },
        sep \in { <<":", " ">>, <<":">>, <<>> },
        ts \in TokenLists }
    \cup { <<"x", ":", " ", "A", ":", " ", "B">> }

Descriptions == PlannerDescriptions \cup PlannedDescriptions \cup OtherDescriptions

FontIds == { "helvetica", "chewy", "bangers", "patrick", "comic" }

(* widths ctx.measureText reports for the pair and for the pair plus spaces *)
Measures == { [pair |-> 60, pairWithSpace |-> 100],
              [pair |-> 400, pairWithSpace |-> 450],
              [pair |-> 1100, pairWithSpace |-> 1150] }

(* getContext('2d') or createPattern returning null *)
TraceFaults == { "no_ctx", "no_text_ctx", "no_pattern_ctx", "no_pattern" }

FaultDescriptions ==
    { SceneDescription(<<"A", "B">>), <<"x">> }

-----------------------------------------------------------------------------
(* generateTracePage, one action per stage, and its two callers *)

HeaderText == "Name: __________________________"

(* lines 27-106: canvas, background, parsing, header, sizing, text canvas *)
TraceStart ==
    /\ tpc = "called"
    /\ IF tFault = "no_ctx"
       THEN /\ returned' = Throws
            /\ tpc' = "ended"
            /\ UNCHANGED <<letters, rowHeight, fontSize, layoutY, done, page,
                           textCanvas>>
       ELSE /\ letters' = ParseLetters(description)
            /\ rowHeight' = RowHeightFor(letters')
            /\ fontSize' = FontSizeFor(rowHeight')
            /\ layoutY' = StartLayoutY
            /\ done' = 0
            /\ page' = [BlankPage EXCEPT
                           !.background = TRUE,
                           !.header = <<[font |-> HeaderFontFamily(fontId),
                                         text |-> HeaderText,
                                         x |-> MarginX, y |-> HeaderY]>>]
            /\ textCanvas' = BlankText
            /\ IF tFault = "no_text_ctx"
               THEN /\ returned' = Returns(page')
                    /\ tpc' = "ended"
               ELSE /\ tpc' = "rows"
                    /\ UNCHANGED returned
    /\ UNCHANGED <<description, fontId, tFault, measured, tracePromise, appState>>
    /\ UNCHANGED <<tcall, firstRun>>
    /\ UNCHANGED <<segVars, genVars, planVars, bookVars>>

(* one call of the letters.forEach callback: the repeat row and the single row *)
TraceLetter ==
    /\ tpc = "rows"
    /\ done < Len(letters)
    /\ LET letter == letters[done + 1]
           pair == Pair(letter)
           row1BaseY == RowBaseY(layoutY, rowHeight)
           row2BaseY == RowBaseY(layoutY + rowHeight, rowHeight)
       IN  /\ page' = [page EXCEPT !.guides =
                          @ \o <<DrawGuides(row1BaseY, fontSize),
                                 DrawGuides(row2BaseY, fontSize)>>]
           /\ textCanvas' = [textCanvas EXCEPT !.glyphs =
                          @ \o RepeatRow(pair, row1BaseY, fontSize, measured)
                            \o <<Glyph(pair, MarginX + 20, row2BaseY, fontSize)>>]
           /\ layoutY' = layoutY + rowHeight + rowHeight
           /\ done' = done + 1
    /\ UNCHANGED <<description, fontId, tFault, measured, tpc, letters, rowHeight,
                   fontSize, returned, tracePromise, appState>>
    /\ UNCHANGED <<tcall, firstRun>>
    /\ UNCHANGED <<segVars, genVars, planVars, bookVars>>

(* lines 136-168: the destination-out fill with the stripe pattern *)
TraceMask ==
    /\ tpc = "rows"
    /\ done = Len(letters)
    /\ LET patterned == tFault # "no_pattern_ctx" /\ tFault # "no_pattern"
       IN  textCanvas' = [textCanvas EXCEPT
                             !.masked = patterned,
                             !.tile = IF patterned THEN StripeTile ELSE NoTile]
    /\ tpc' = "composite"
    /\ UNCHANGED <<description, fontId, tFault, measured, letters, rowHeight,
                   fontSize, layoutY, done, page, returned, tracePromise, appState>>
    /\ UNCHANGED <<tcall, firstRun>>
    /\ UNCHANGED <<segVars, genVars, planVars, bookVars>>

(* mutant: the glyph surface replaces what the page held *)
DrawImageOpaque(pg, tc) ==
    [pg EXCEPT !.header = <<>>, !.guides = <<>>,
               !.glyphs = tc.glyphs, !.dashed = tc.masked, !.tile = tc.tile]

(* ctx.drawImage(textCanvas, 0, 0): source-over, the glyph surface is
   transparent where nothing was drawn or where the mask erased *)
DrawImage(pg, tc) ==
    [pg EXCEPT !.glyphs = tc.glyphs, !.dashed = tc.masked, !.tile = tc.tile]

(* ctx.drawImage(textCanvas, 0, 0); return canvas.toDataURL("image/png") *)
TraceComposite ==
    /\ tpc = "composite"
    /\ page' = DrawImage(page, textCanvas)
    /\ returned' = Returns(page')
    /\ tpc' = "ended"
    /\ UNCHANGED <<description, fontId, tFault, measured, letters, rowHeight,
                   fontSize, layoutY, done, textCanvas, tracePromise, appState>>
    /\ UNCHANGED <<tcall, firstRun>>
    /\ UNCHANGED <<segVars, genVars, planVars, bookVars>>

(* generateImage: return Promise.resolve(generateTracePage(description, fontId))
   in an async function: an exception rejects the promise it returns *)
SettleTrace(r) ==
    IF r.how = "returned" THEN TraceResolved(r.value) ELSE TraceRejected

TraceGenerateImage ==
    /\ tpc = "ended"
    /\ tracePromise' = SettleTrace(returned)
    /\ tpc' = "settled"
    /\ UNCHANGED <<description, fontId, tFault, measured, letters, rowHeight,
                   fontSize, layoutY, done, page, textCanvas, returned, appState>>
    /\ UNCHANGED <<tcall, firstRun>>
    /\ UNCHANGED <<segVars, genVars, planVars, bookVars>>

(* generateBookImages: await generateImage(...) inside try; the catch block
   does setState(AppState.ERROR) *)
AfterAwait(p, st) == IF p.state = "rejected" THEN "ERROR" ELSE st

BookPageAwaited ==
    /\ tpc = "settled"
    /\ appState' = AfterAwait(tracePromise, appState)
    /\ tpc' = "awaited"
    /\ UNCHANGED <<description, fontId, tFault, measured, letters, rowHeight,
                   fontSize, layoutY, done, page, textCanvas, returned,
                   tracePromise>>
    /\ UNCHANGED <<tcall, firstRun>>
    /\ UNCHANGED <<segVars, genVars, planVars, bookVars>>

(* the descriptions a second call is made with *)
RepeatedDescriptions ==
    { SceneDescription(<<"A", "B">>),
      SceneDescription(SubSeq(UpperCase, 1, MaxLetters)),
      <<"x">> }

(* the caller invokes generateImage again with the same description and font;
   the widths measureText reports may have changed, a web font having loaded *)
TraceSecondCall ==
    /\ tpc = "awaited"
    /\ tcall = 1
    /\ tFault = "none"
    /\ description \in RepeatedDescriptions
    /\ tcall' = 2
    /\ firstRun' = [rowHeight |-> rowHeight, fontSize |-> fontSize,
                    page |-> tracePromise.value]
    /\ measured' \in Measures
    /\ returned' = Running
    /\ tracePromise' = TracePending
    /\ tpc' = "called"
    /\ UNCHANGED <<description, fontId, tFault, letters, rowHeight, fontSize,
                   layoutY, done, page, textCanvas, appState>>
    /\ UNCHANGED <<segVars, genVars, planVars, bookVars>>

-----------------------------------------------------------------------------
(* generateImage: the dispatch between the compositor, the generative
   service and the segmentation *)

Modes == { "standard", "number", "letter", "trace" }
Types == { "cover", "page" }
AgeGroups == { "1-3", "3-5", "5-8", "9+", "teen" }

(* the answers of the service: an image part, no image part, an exception *)
Responses == { "image", "no_data", "throws" }

(* the ends of a render function: its drawing, or its failure path *)
Renderings == { "drawn", "failed" }

(* mutant: every trace-mode call is intercepted, covers included *)
InterceptsAnyTrace(m, t) == m = "trace"

(* if (mode === 'trace' && type === 'page') *)
Intercepts(m, t) == m = "trace" /\ t = "page"

(* if (mode === 'number' && type === 'page') *)
PostProcesses(m, t) == m = "number" /\ t = "page"

(* the switch on ageGroup *)
StyleInstruction(age) ==
    CASE age = "1-3" -> "extra-bold"
      [] age = "3-5" -> "bold"
      [] age = "5-8" -> "standard"
      [] age = "9+" -> "fine"
      [] OTHER -> "default"

(* the prompt chosen by type and mode *)
PromptFor(m, t, age) ==
    IF t = "cover" THEN [kind |-> "cover", style |-> "colorful"]
    ELSE IF m = "number" THEN [kind |-> "clean_page", style |-> StyleInstruction(age)]
    ELSE IF m = "letter" THEN [kind |-> "letter_page", style |-> StyleInstruction(age)]
    ELSE [kind |-> "coloring_page", style |-> StyleInstruction(age)]

NoPrompt == [kind |-> "none", style |-> "none"]

(* the values a call can produce: finalBase64 is the image string that
   processColorByNumber receives as its input *)
finalBase64 == InputImage
Worksheet == [kind |-> "worksheet", drawn |-> BlankCanvas]
Annotated == ToDataURL([BlankCanvas EXCEPT !.separator = TRUE, !.legend = legendColors])

Call(fn, arg) == [fn |-> fn, arg |-> arg]

(* return Promise.resolve(generateTracePage(description, fontId)) *)
GenerateImageIntercept ==
    /\ gpc = "called"
    /\ Intercepts(mode, type)
    /\ applied' = Append(applied, Call("generateTracePage", NoValue))
    /\ result' = IF rendering = "drawn" THEN Resolved(Worksheet, "intercept")
                 ELSE Rejected(ErrorValue, "intercept")
    /\ gpc' = "done"
    /\ UNCHANGED <<mode, type, ageGroup, response, rendering, prompt, serviceCalls>>
    /\ UNCHANGED <<segVars, traceVars, planVars, bookVars>>

(* lines 461-513: the model name and the prompt *)
GenerateImagePrompt ==
    /\ gpc = "called"
    /\ ~Intercepts(mode, type)
    /\ prompt' = PromptFor(mode, type, ageGroup)
    /\ gpc' = "prompted"
    /\ UNCHANGED <<mode, type, ageGroup, response, rendering, serviceCalls,
                   applied, result>>
    /\ UNCHANGED <<segVars, traceVars, planVars, bookVars>>

(* lines 515-539: the request, the search for the image part, and the catch
   block for a failed request or an answer without image data *)
GenerateImageRequest ==
    /\ gpc = "prompted"
    /\ serviceCalls' = serviceCalls + 1
    /\ IF response = "image"
       THEN /\ gpc' = "responded"
            /\ UNCHANGED result
       ELSE /\ gpc' = "done"
            /\ result' = Rejected(ErrorValue, "throw")
    /\ UNCHANGED <<mode, type, ageGroup, response, rendering, prompt, applied>>
    /\ UNCHANGED <<segVars, traceVars, planVars, bookVars>>

(* lines 541-546: the post-processing for color by number, or the image *)
GenerateImagePostProcess ==
    /\ gpc = "responded"
    /\ IF PostProcesses(mode, type)
       THEN /\ applied' = Append(applied, Call("processColorByNumber", finalBase64))
            /\ result' = AwaitPostProcessing(
                             IF rendering = "drawn" THEN SuccessSettles(Annotated)
                             ELSE CatchSettles(finalBase64))
       ELSE /\ result' = Resolved(finalBase64, "return")
            /\ UNCHANGED applied
    /\ gpc' = "done"
    /\ UNCHANGED <<mode, type, ageGroup, response, rendering, prompt, serviceCalls>>
    /\ UNCHANGED <<segVars, traceVars, planVars, bookVars>>

-----------------------------------------------------------------------------
(* generateScenes in trace mode, one action per loop step, and the parse
   generateTracePage makes of each scene it is later given *)

(* for (i < pageCount): startIdx < totalLetters, scenes.push({...}) *)
PlanPush ==
    /\ ppc = "loop"
    /\ planI < pageCount
    /\ planI * LettersPerPage(pageCount) < TotalLetters
    /\ scenes' = Append(scenes, TraceScene(planI, pageCount))
    /\ slices' = Append(slices, PageLetters(planI, pageCount))
    /\ planI' = planI + 1
    /\ UNCHANGED <<pageCount, ppc, parsed>>
    /\ UNCHANGED <<segVars, traceVars, genVars, bookVars>>

(* if (startIdx >= totalLetters) break; return scenes *)
PlanBreak ==
    /\ ppc = "loop"
    /\ planI < pageCount
    /\ planI * LettersPerPage(pageCount) >= TotalLetters
    /\ ppc' = "returned"
    /\ UNCHANGED <<pageCount, planI, scenes, slices, parsed>>
    /\ UNCHANGED <<segVars, traceVars, genVars, bookVars>>

(* the loop condition i < pageCount fails; return scenes *)
PlanReturn ==
    /\ ppc = "loop"
    /\ planI >= pageCount
    /\ ppc' = "returned"
    /\ UNCHANGED <<pageCount, planI, scenes, slices, parsed>>
    /\ UNCHANGED <<segVars, traceVars, genVars, bookVars>>

(* generateTracePage(scene.description, fontId) parses the next scene *)
PlanParse ==
    /\ ppc = "returned"
    /\ Len(parsed) < Len(scenes)
    /\ parsed' = Append(parsed, ParseLetters(scenes[Len(parsed) + 1].description))
    /\ UNCHANGED <<pageCount, ppc, planI, scenes, slices>>
    /\ UNCHANGED <<segVars, traceVars, genVars, bookVars>>

IdlePlan ==
    /\ pageCount = 0
    /\ ppc = "idle"
    /\ planI = 0
    /\ scenes = <<>>
    /\ slices = <<>>
    /\ parsed = <<>>

-----------------------------------------------------------------------------
(* App: the state the component keeps, its storage, and the handlers *)

AppStates == { "INPUT", "PLANNING", "GENERATING", "PREVIEW", "ERROR" }

(* the theme typed into the form; the child name is typed with it *)
Themes == { "dino" }

(* id: 'cover' *)
CoverId == <<"cover">>

(* a GeneratedImage; stale when handleReset ran while the generateBookImages
   that made it was in flight *)
GeneratedImage(id, t, st) == [id |-> id, type |-> t, stale |-> st]

(* useState<BookData>({ theme: '', ..., scenes: [], images: [] }) *)
EmptyBook == [theme |-> "", scenes |-> <<>>, images |-> <<>>]

(* localStorage.getItem(STORAGE_KEY) === null *)
NoSave == [state |-> "NONE", theme |-> "", bookData |-> EmptyBook]

(* const data = { state, theme, ..., bookData, timestamp } *)
Snapshot == [state |-> state, theme |-> theme, bookData |-> bookData]

(* mutant: the save is written in every state *)
PersistedAlways(st, snap, old) == snap

(* if (state !== AppState.ERROR) localStorage.setItem(...) *)
Persisted(st, snap, old) == IF st # "ERROR" THEN snap ELSE old

(* if (data.state === AppState.PREVIEW) setState(AppState.PREVIEW); the
   state is left at its initial INPUT otherwise *)
RestoredState(sv) == IF sv.state = "PREVIEW" THEN "PREVIEW" ELSE "INPUT"

(* let completedCount = existingImages.length *)
CompletedCount(existing) == Len(existing)

(* Math.round((completedCount / totalSteps) * 100) *)
ProgressOf(completed, totalSteps) ==
    (200 * completed + totalSteps) \div (2 * totalSteps)

(* bookData.scenes.length > 0 && bookData.theme === theme
   && bookData.childName === childName *)
IsResuming == Len(bookData.scenes) > 0 /\ bookData.theme = theme

(* the ids of n planned scenes *)
SceneIds(n) == [k \in 1 .. n |-> SceneId(k - 1)]

(* existingImages.some(img => img.type === 'cover') *)
HasCover(existing) == \E k \in 1 .. Len(existing) : existing[k].type = "cover"

(* mutant: a page counts as present when any page is *)
HasAnyPage(existing, id) == \E k \in 1 .. Len(existing) : existing[k].type = "page"

(* existingImages.some(img => img.id === scene.id) *)
HasPage(existing, id) == \E k \in 1 .. Len(existing) : existing[k].id = id

(* the first index from `from` on whose scene has no page in existingImages,
   or the length of the scenes plus one *)
RECURSIVE NextMissing(_, _, _)
NextMissing(sc, existing, from) ==
    IF from > Len(sc) THEN from
    ELSE IF HasPage(existing, sc[from]) THEN NextMissing(sc, existing, from + 1)
    ELSE from

(* the pages loop from index `from` up to its next await: generateImage for
   the next scene without a page, or the half-second pause after the loop *)
PagesFrom(run, from) ==
    LET k == NextMissing(run.scenes, run.existing, from)
    IN  IF k <= Len(run.scenes)
        THEN [run EXCEPT !.pos = "page", !.i = k,
                         !.requested = Append(@, run.scenes[k])]
        ELSE [run EXCEPT !.pos = "finishing", !.i = k]

(* generateBookImages up to its first await *)
StartImages(run) ==
    IF ~HasCover(run.existing)
    THEN [run EXCEPT !.pos = "cover", !.requested = Append(@, CoverId)]
    ELSE PagesFrom(run, 1)

NewRun(th) ==
    [pos |-> "planning", theme |-> th, scenes |-> <<>>, existing |-> <<>>,
     completed |-> 0, i |-> 0, requested |-> <<>>, abandoned |-> FALSE]

(* the calls in flight once the call r has ended *)
Ended(rs, r) == SubSeq(rs, 1, r - 1) \o SubSeq(rs, r + 1, Len(rs))

(* generateBookImages is executing in some call *)
GeneratingImages == \E r \in 1 .. Len(runs) : runs[r].pos # "planning"

(* handleStart of a new book, up to await generateScenes(...) *)
HandleStartFresh ==
    /\ state = "INPUT"
    /\ theme # ""
    /\ ~IsResuming
    /\ Len(runs) < MaxRuns
    /\ state' = "PLANNING"
    /\ runs' = Append(runs, NewRun(theme))
    /\ lastEvent' = "start"
    /\ UNCHANGED <<theme, bookData, progress, saved, interrupted>>
    /\ UNCHANGED <<segVars, traceVars, genVars, planVars>>

(* handleStart of a book whose scenes are there, up to the first await of
   generateBookImages *)
HandleStartResume ==
    /\ state = "INPUT"
    /\ theme # ""
    /\ IsResuming
    /\ Len(runs) < MaxRuns
    /\ LET run == [NewRun(theme) EXCEPT
                      !.scenes = bookData.scenes,
                      !.existing = bookData.images,
                      !.completed = CompletedCount(bookData.images)]
       IN  /\ progress' = ProgressOf(run.completed, Len(run.scenes) + 1)
           /\ runs' = Append(runs, StartImages(run))
    /\ state' = "GENERATING"
    /\ lastEvent' = "start"
    /\ UNCHANGED <<theme, bookData, saved, interrupted>>
    /\ UNCHANGED <<segVars, traceVars, genVars, planVars>>

(* generateScenes resolves: setBookData, setState(GENERATING), and
   generateBookImages up to its first await *)
ScenesResolved(r) ==
    /\ runs[r].pos = "planning"
    /\ \E n \in 1 .. MaxScenes :
          LET run == [runs[r] EXCEPT !.scenes = SceneIds(n),
                                     !.existing = <<>>,
                                     !.completed = CompletedCount(<<>>)]
          IN  /\ bookData' = [theme |-> run.theme, scenes |-> run.scenes,
                              images |-> <<>>]
              /\ progress' = ProgressOf(run.completed, n + 1)
              /\ runs' = [runs EXCEPT ![r] = StartImages(run)]
    /\ state' = "GENERATING"
    /\ UNCHANGED <<theme, saved, lastEvent, interrupted>>
    /\ UNCHANGED <<segVars, traceVars, genVars, planVars>>

(* generateScenes rejects: the catch of handleStart *)
ScenesRejected(r) ==
    /\ runs[r].pos = "planning"
    /\ state' = "ERROR"
    /\ runs' = Ended(runs, r)
    /\ UNCHANGED <<theme, bookData, progress, saved, lastEvent, interrupted>>
    /\ UNCHANGED <<segVars, traceVars, genVars, planVars>>

(* generateImage resolves: setBookData appends the image, completedCount++,
   setProgress, and the loop runs on to its next await *)
ImageResolved(r) ==
    /\ runs[r].pos \in { "cover", "page" }
    /\ LET run == runs[r]
           image == IF run.pos = "cover" THEN GeneratedImage(CoverId, "cover", run.abandoned)
                    ELSE GeneratedImage(run.scenes[run.i], "page", run.abandoned)
           counted == [run EXCEPT !.completed = @ + 1]
       IN  /\ bookData' = [bookData EXCEPT !.images = Append(@, image)]
           /\ progress' = ProgressOf(counted.completed, Len(run.scenes) + 1)
           /\ runs' = [runs EXCEPT ![r] = PagesFrom(counted, run.i + 1)]
    /\ UNCHANGED <<state, theme, saved, lastEvent, interrupted>>
    /\ UNCHANGED <<segVars, traceVars, genVars, planVars>>

(* generateImage rejects: the catch of generateBookImages *)
ImageRejected(r) ==
    /\ runs[r].pos \in { "cover", "page" }
    /\ state' = "ERROR"
    /\ runs' = Ended(runs, r)
    /\ UNCHANGED <<theme, bookData, progress, saved, lastEvent, interrupted>>
    /\ UNCHANGED <<segVars, traceVars, genVars, planVars>>

(* the half-second pause ends: setState(AppState.PREVIEW) *)
ImagesFinished(r) ==
    /\ runs[r].pos = "finishing"
    /\ state' = "PREVIEW"
    /\ runs' = Ended(runs, r)
    /\ UNCHANGED <<theme, bookData, progress, saved, lastEvent, interrupted>>
    /\ UNCHANGED <<segVars, traceVars, genVars, planVars>>

(* handleReset, confirmed: Start Over is offered outside INPUT, Try Again
   in ERROR; the calls that are awaiting are left to run *)
HandleReset ==
    /\ state # "INPUT"
    /\ saved' = NoSave
    /\ state' = "INPUT"
    /\ theme' = ""
    /\ bookData' = EmptyBook
    /\ progress' = 0
    /\ runs' = [r \in 1 .. Len(runs) |->
                   [runs[r] EXCEPT !.abandoned = @ \/ runs[r].pos # "planning"]]
    /\ lastEvent' = "reset"
    /\ interrupted' = (interrupted \/ runs # <<>>)
    /\ UNCHANGED <<segVars, traceVars, genVars, planVars>>

(* the theme and child name are typed into the form of the INPUT view *)
SetTheme(t) ==
    /\ state = "INPUT"
    /\ t # theme
    /\ theme' = t
    /\ UNCHANGED <<state, bookData, progress, saved, runs, lastEvent, interrupted>>
    /\ UNCHANGED <<segVars, traceVars, genVars, planVars>>

(* the save effect's timer fires, one second after the last change of the
   values it depends on: never inside the half-second pause *)
Save ==
    /\ \A r \in 1 .. Len(runs) : runs[r].pos # "finishing"
    /\ saved' = Persisted(state, Snapshot, saved)
    /\ saved' # saved
    /\ UNCHANGED <<state, theme, bookData, progress, runs, lastEvent, interrupted>>
    /\ UNCHANGED <<segVars, traceVars, genVars, planVars>>

(* the page is reloaded: every call in flight is gone, the component starts
   from its initial state and the load effect restores what was saved *)
Reload ==
    /\ runs' = <<>>
    /\ theme' = saved.theme
    /\ bookData' = saved.bookData
    /\ state' = RestoredState(saved)
    /\ progress' = 0
    /\ lastEvent' = "load"
    /\ UNCHANGED <<saved, interrupted>>
    /\ UNCHANGED <<segVars, traceVars, genVars, planVars>>

IdleBook ==
    /\ state = "INPUT"
    /\ theme = ""
    /\ bookData = EmptyBook
    /\ progress = 0
    /\ saved = NoSave
    /\ runs = <<>>
    /\ lastEvent = "load"
    /\ interrupted = FALSE

IdleGen ==
    /\ mode = "standard"
    /\ type = "page"
    /\ ageGroup = "3-5"
    /\ response = "image"
    /\ rendering = "drawn"
    /\ gpc = "idle"
    /\ prompt = NoPrompt
    /\ serviceCalls = 0
    /\ applied = <<>>
    /\ result = Pending

IdleTrace ==
    /\ description = <<>>
    /\ fontId = "helvetica"
    /\ tFault = "none"
    /\ measured = [pair |-> 0, pairWithSpace |-> 0]
    /\ tpc = "idle"
    /\ letters = <<>>
    /\ rowHeight = 0
    /\ fontSize = 0
    /\ layoutY = 0
    /\ done = 0
    /\ page = BlankPage
    /\ textCanvas = BlankText
    /\ returned = Running
    /\ tracePromise = TracePending
    /\ appState = "INPUT"
    /\ tcall = 1
    /\ firstRun = [rowHeight |-> 0, fontSize |-> 0, page |-> BlankPage]

IdleSeg ==
    /\ img = Empty
    /\ fault = "none"
    /\ pc = "idle"
    /\ x = -1
    /\ y = -1
    /\ visited = {}
    /\ q = <<>>
    /\ head = 0
    /\ tail = 0
    /\ fill = NoFill
    /\ regions = <<>>
    /\ canvas = BlankCanvas
    /\ promise = Pending
    /\ giPromise = Pending
    /\ touched = {}
    /\ enqueues = 0
    /\ enqueued = {}
    /\ call = 1
    /\ firstOut = NoValue
    /\ added = {}
    /\ fills = <<>>
    /\ resolves = 0


-----------------------------------------------------------------------------
(* The specifications *)

InitSeg ==
    /\ \/ img \in Images /\ fault = "none"
       \/ img \in FaultImages /\ fault \in Faults
    /\ pc = "loading"
    /\ x = -1
    /\ y = -1
    /\ visited = {}
    /\ q = <<>>
    /\ head = 0
    /\ tail = 0
    /\ fill = NoFill
    /\ regions = <<>>
    /\ canvas = BlankCanvas
    /\ promise = Pending
    /\ giPromise = Pending
    /\ touched = {}
    /\ enqueues = 0
    /\ enqueued = {}
    /\ call = 1
    /\ firstOut = NoValue
    /\ added = {}
    /\ fills = <<>>
    /\ resolves = 0
    /\ IdleTrace
    /\ IdleGen
    /\ IdlePlan
    /\ IdleBook

NextSeg ==
    \/ OnError
    \/ OnLoad
    \/ SeedStep
    \/ FillStep
    \/ FillEnd
    \/ DrawNumbers
    \/ DrawLegend
    \/ Catch
    \/ GenerateImageReturn
    \/ SecondCall

SpecSeg == InitSeg /\ [][NextSeg]_vars

(* the images the runs to completion are followed on *)
LiveImages ==
    { OneSeed, Empty, NoSeedCols, AllBlack, GreyRect, GreyBridge, EdgeToEdge,
      OneRect(11, 11, 13, 13, White) }

InitSegLive ==
    /\ InitSeg
    /\ img \in LiveImages

(* the handlers and loops of one call run to completion: the browser fires
   onload or onerror, and a loop iteration that can run does run *)
SpecSegLive == InitSegLive /\ [][NextSeg]_vars /\ WF_vars(NextSeg)

InitTrace ==
    /\ \/ /\ description \in Descriptions
          /\ fontId \in FontIds
          /\ measured \in Measures
          /\ tFault = "none"
       \/ /\ description \in FaultDescriptions
          /\ fontId = "chewy"
          /\ measured \in Measures
          /\ tFault \in TraceFaults
    /\ tpc = "called"
    /\ letters = <<>>
    /\ rowHeight = 0
    /\ fontSize = 0
    /\ layoutY = 0
    /\ done = 0
    /\ page = BlankPage
    /\ textCanvas = BlankText
    /\ returned = Running
    /\ tracePromise = TracePending
    /\ appState = "GENERATING"
    /\ tcall = 1
    /\ firstRun = [rowHeight |-> 0, fontSize |-> 0, page |-> BlankPage]
    /\ IdleSeg
    /\ IdleGen
    /\ IdlePlan
    /\ IdleBook

NextTrace ==
    \/ TraceStart
    \/ TraceLetter
    \/ TraceMask
    \/ TraceComposite
    \/ TraceGenerateImage
    \/ BookPageAwaited
    \/ TraceSecondCall

SpecTrace == InitTrace /\ [][NextTrace]_vars

InitGen ==
    /\ mode \in Modes
    /\ type \in Types
    /\ ageGroup \in AgeGroups
    /\ response \in Responses
    /\ rendering \in Renderings
    /\ gpc = "called"
    /\ prompt = NoPrompt
    /\ serviceCalls = 0
    /\ applied = <<>>
    /\ result = Pending
    /\ IdleSeg
    /\ IdleTrace
    /\ IdlePlan
    /\ IdleBook

NextGen ==
    \/ GenerateImageIntercept
    \/ GenerateImagePrompt
    \/ GenerateImageRequest
    \/ GenerateImagePostProcess

SpecGen == InitGen /\ [][NextGen]_vars

InitPlan ==
    /\ pageCount \in 1 .. PlanPages
    /\ ppc = "loop"
    /\ planI = 0
    /\ scenes = <<>>
    /\ slices = <<>>
    /\ parsed = <<>>
    /\ IdleSeg
    /\ IdleTrace
    /\ IdleGen
    /\ IdleBook

NextPlan ==
    \/ PlanPush
    \/ PlanBreak
    \/ PlanReturn
    \/ PlanParse

SpecPlan == InitPlan /\ [][NextPlan]_vars

(* the page is opened with nothing saved *)
InitBook ==
    /\ state = "INPUT"
    /\ theme = ""
    /\ bookData = EmptyBook
    /\ progress = 0
    /\ saved = NoSave
    /\ runs = <<>>
    /\ lastEvent = "load"
    /\ interrupted = FALSE
    /\ IdleSeg
    /\ IdleTrace
    /\ IdleGen
    /\ IdlePlan

NextBook ==
    \/ HandleStartFresh
    \/ HandleStartResume
    \/ \E r \in 1 .. Len(runs) : ScenesResolved(r)
    \/ \E r \in 1 .. Len(runs) : ScenesRejected(r)
    \/ \E r \in 1 .. Len(runs) : ImageResolved(r)
    \/ \E r \in 1 .. Len(runs) : ImageRejected(r)
    \/ \E r \in 1 .. Len(runs) : ImagesFinished(r)
    \/ HandleReset
    \/ \E t \in Themes : SetTheme(t)
    \/ Save
    \/ Reload

SpecBook == InitBook /\ [][NextBook]_vars

-----------------------------------------------------------------------------
(* Properties of processColorByNumber and generateTracePage *)

(* C1: processColorByNumber never rejects; when the context is missing, the
   image fails to load or an exception is thrown in the try block, its
   promise resolves with exactly the input image, and the generateImage call
   awaiting it resolves with the same value instead of rejecting. *)
C1_NeverRejects ==
    /\ promise.state \in {"pending", "resolved"}
    /\ promise.by \in {"no_ctx", "catch", "onerror"} => promise.value = InputImage
    /\ giPromise.state \in {"pending", "resolved"}
    /\ giPromise.state = "resolved" => giPromise.value = promise.value

(* an exception thrown in the middle of a fill ended in the input image *)
C1_Witness ==
    /\ fault = "throw_fill"
    /\ head > 0
    /\ promise.by = "catch"
    /\ giPromise = Resolved(InputImage, "return")

(* C2: generateTracePage never throws, also without a 2-D context, so
   generateImage never rejects for a trace page and the book generation never
   enters ERROR because of the compositor. *)
C2_CompositorNeverFails ==
    /\ returned.how # "thrown"
    /\ tracePromise.state # "rejected"
    /\ appState # "ERROR"

(* C3: in one segmentation run visited only grows, no pixel is enqueued
   twice, and in a fill head <= tail <= width * height. *)
C3_QueueBounded ==
    /\ enqueues = Cardinality(enqueued)
    /\ enqueued \subseteq visited
    /\ 0 <= head /\ head <= tail /\ tail <= NumPixels(img)
    /\ Len(q) <= NumPixels(img)
    /\ fill.count <= head

C3_VisitedGrows == pc # "loading" => visited \subseteq visited'

C3_VisitOnce == []C3_QueueBounded /\ [][C3_VisitedGrows]_vars

(* a fill that enqueued every pixel of an all-white image *)
C3_Witness ==
    /\ pc = "fill"
    /\ NumPixels(img) > 0
    /\ tail = NumPixels(img)
    /\ head = tail

(* C4: every index used on the pixel data, the visited mask and the queue
   lies in 0 .. width * height - 1: seeds, neighbours and the centroid. *)
C4_NoAccessOutsideBuffers == \A i \in touched : InBuffer(img, i)

(* the fill dequeued the last pixel of the image, whose right and lower
   neighbours lie outside the buffers *)
C4_Witness ==
    /\ pc = "fill"
    /\ head > 0
    /\ q[head] = NumPixels(img) - 1
    /\ touched # {}

(* images made of one white rectangle that does not touch the image's edge,
   on black *)
IsOneWhiteRect(im) ==
    /\ im.bg = Black
    /\ Len(im.rects) = 1
    /\ im.rects[1].col = White
    /\ 1 <= im.rects[1].x0 /\ im.rects[1].x0 <= im.rects[1].x1
    /\ im.rects[1].x1 <= im.w - 2
    /\ 1 <= im.rects[1].y0 /\ im.rects[1].y0 <= im.rects[1].y1
    /\ im.rects[1].y1 <= im.h - 2

RectArea(r) == (r.x1 - r.x0 + 1) * (r.y1 - r.y0 + 1)

ContainsSeed(im, r) ==
    \E p \in SeedPoints(im) :
        r.x0 <= p[1] /\ p[1] <= r.x1 /\ r.y0 <= p[2] /\ p[2] <= r.y1

OneLabelAtCentroid ==
    /\ Len(regions) = 1
    /\ canvas.labels =
         <<[text |-> regions[1].id, x |-> regions[1].x, y |-> regions[1].y]>>
    /\ regions[1].id \in 1 .. LabelCycle

(* C5 as stated: every white rectangle of more than 800 pixels on black gives
   exactly one region, centred on the rectangle's geometric centre, and one
   label there. *)
C5_AnyLargeRectangle ==
    (/\ promise.by = "success"
     /\ IsOneWhiteRect(img)
     /\ RectArea(img.rects[1]) > MinRegionSize)
    => /\ OneLabelAtCentroid
       /\ 2 * regions[1].x = img.rects[1].x0 + img.rects[1].x1
       /\ 2 * regions[1].y = img.rects[1].y0 + img.rects[1].y1

(* C5 amended: a white rectangle of more than 800 pixels on black that holds
   at least one point of the seed grid gives exactly one region, of the
   rectangle's size, whose centroid is the rectangle's centre rounded down
   to whole pixels, and exactly one label is stamped there. *)
C5_SeededLargeRectangle ==
    (/\ promise.by = "success"
     /\ IsOneWhiteRect(img)
     /\ RectArea(img.rects[1]) > MinRegionSize
     /\ ContainsSeed(img, img.rects[1]))
    => /\ OneLabelAtCentroid
       /\ regions[1].size = RectArea(img.rects[1])
       /\ regions[1].x = (img.rects[1].x0 + img.rects[1].x1) \div 2
       /\ regions[1].y = (img.rects[1].y0 + img.rects[1].y1) \div 2

(* a labelled rectangle whose centre lies between two pixel columns *)
C5_Witness ==
    /\ promise.by = "success"
    /\ IsOneWhiteRect(img)
    /\ RectArea(img.rects[1]) > MinRegionSize
    /\ ContainsSeed(img, img.rects[1])
    /\ (img.rects[1].x0 + img.rects[1].x1) % 2 = 1
    /\ Len(canvas.labels) = 1

IsAllBlack(im) ==
    /\ im.bg = Black
    /\ \A i \in 1 .. Len(im.rects) : im.rects[i].col = Black

LegendOnly == [labels |-> <<>>, separator |-> TRUE, legend |-> legendColors]

(* C6: on an all-black image no fill starts, no region is accepted, no label
   is stamped, and the separator and the five legend entries are drawn. *)
C6_BlackImage ==
    (IsAllBlack(img) /\ fault = "none" /\ ~GetImageDataThrows(img))
    => /\ enqueues = 0
       /\ pc # "fill"
       /\ regions = <<>>
       /\ canvas.labels = <<>>
       /\ Len(legendColors) = 5
       /\ pc \in {"settled", "returned"} =>
              promise = SuccessSettles(ToDataURL(LegendOnly))

C6_Witness ==
    /\ IsAllBlack(img)
    /\ NumPixels(img) > 0
    /\ pc = "settled"
    /\ promise.value.drawn = LegendOnly

(* C7: a white rectangle of at most 800 pixels on black gives no region and
   no label, wherever it lies. *)
C7_SmallRectangle ==
    (IsOneWhiteRect(img) /\ RectArea(img.rects[1]) <= MinRegionSize)
    => /\ regions = <<>>
       /\ canvas.labels = <<>>

(* a fill that counted exactly 800 pixels and was dropped *)
C7_Witness ==
    /\ IsOneWhiteRect(img)
    /\ RectArea(img.rects[1]) = MinRegionSize
    /\ fill.count = MinRegionSize
    /\ promise.by = "success"
    /\ canvas.labels = <<>>

(* C8: for n >= 1 characters there are 2n guide rows, two per character in
   list order, consecutive baselines exactly one row height apart (hence
   strictly increasing), and the row height lies in [120, 220]. *)
C8_GuideRows ==
    (tpc \notin {"idle", "called"} /\ tFault \notin {"no_ctx", "no_text_ctx"})
    => /\ Len(page.guides) = 2 * done
       /\ tpc # "rows" => done = Len(letters)
       /\ \A i \in 1 .. Len(page.guides) - 1 :
              page.guides[i + 1].baseline - page.guides[i].baseline = rowHeight * 100
       /\ \A k \in 1 .. done :
              \E g \in 1 .. Len(textCanvas.glyphs) :
                 /\ textCanvas.glyphs[g].text = Pair(letters[k])
                 /\ textCanvas.glyphs[g].y = page.guides[2 * k].baseline - fontSize * 5
       /\ rowHeight >= MinRowHeight
       /\ rowHeight <= MaxRowHeight

(* six characters: twelve rows at the minimum row height *)
C8_Witness ==
    /\ tpc = "ended"
    /\ Len(letters) = 6
    /\ Len(returned.value.guides) = 12
    /\ rowHeight = MinRowHeight

HasSeparator(desc) == \E i \in 1 .. Len(desc) : IsAt(desc, <<":", " ">>, i)

NoSingleToken(desc) ==
    LET tokens == Split(LettersPart(desc), <<",">>)
    IN  \A i \in 1 .. Len(tokens) : Len(Trim(tokens[i])) # 1

(* C9: a description without ": ", or whose tokens are all not one character
   long, gives an empty list: the header is drawn, no guide line and no glyph
   is drawn, and the page is returned although the divisor is zero. *)
C9_EmptyList ==
    (/\ tpc \notin {"idle", "called"}
     /\ tFault # "no_ctx"
     /\ ~HasSeparator(description) \/ NoSingleToken(description))
    => /\ letters = <<>>
       /\ RowsNeeded(letters) = 0
       /\ rowHeight = MaxRowHeight
       /\ Len(page.header) = 1
       /\ page.guides = <<>>
       /\ textCanvas.glyphs = <<>>
       /\ returned.how # "thrown"
       /\ tpc \in {"ended", "settled", "awaited"} =>
              /\ returned = Returns(page)
              /\ returned.value.glyphs = <<>>
       /\ tracePromise.state # "rejected"
       /\ appState = "GENERATING"

(* a description with a separator and only long or empty tokens, returned *)
C9_Witness ==
    /\ tpc = "ended"
    /\ HasSeparator(description)
    /\ Len(description) > 3
    /\ letters = <<>>
    /\ returned.how = "returned"

SameButIds(a, b) ==
    /\ a.kind = b.kind
    /\ a.drawn.separator = b.drawn.separator
    /\ a.drawn.legend = b.drawn.legend
    /\ Len(a.drawn.labels) = Len(b.drawn.labels)
    /\ \A i \in 1 .. Len(a.drawn.labels) :
          /\ a.drawn.labels[i].x = b.drawn.labels[i].x
          /\ a.drawn.labels[i].y = b.drawn.labels[i].y

(* C10 as stated: a second run on the same image gives the same output,
   label ids included. *)
C10_SameOutput ==
    (call = 2 /\ giPromise.state = "resolved") => giPromise.value = firstOut

(* C10 amended: a second run on the same image accepts the same regions and
   draws the same legend; the label id stamped on a region is drawn at random
   in each run and may differ. *)
C10_SameRegions ==
    (call = 2 /\ giPromise.state = "resolved") => SameButIds(giPromise.value, firstOut)

(* two runs that labelled the same region differently *)
C10_Witness ==
    /\ call = 2
    /\ giPromise.state = "resolved"
    /\ Len(firstOut.drawn.labels) = 1
    /\ giPromise.value # firstOut

-----------------------------------------------------------------------------
(* Properties of the labels, the acceptance test and the fills *)

(* C12: every accepted region has a label id in 1..5, the legend has exactly
   five entries whose ids are 1, 2, 3, 4, 5, and every label stamped on the
   returned image has exactly one legend entry. *)
C12_LabelsInLegend ==
    /\ \A i \in 1 .. Len(regions) : regions[i].id \in 1 .. 5
    /\ Len(legendColors) = 5
    /\ \A k \in 1 .. 5 : legendColors[k].id = k
    /\ promise.by = "success" =>
          LET drawn == promise.value.drawn
          IN  /\ drawn.legend = legendColors
              /\ \A i \in 1 .. Len(drawn.labels) :
                    Cardinality({ k \in 1 .. Len(drawn.legend) :
                                    drawn.legend[k].id = drawn.labels[i].text }) = 1

(* an image returned with two labels, one of them the largest id *)
C12_Witness ==
    /\ promise.by = "success"
    /\ Len(promise.value.drawn.labels) = 2
    /\ promise.value.drawn.labels[2].text = 5

(* all three channels exceed 200 *)
WhiteIsh(px) == px[1] > 200 /\ px[2] > 200 /\ px[3] > 200

(* C14: a completed fill is accepted if and only if its count exceeds 800
   and all three channels of the pixel at its centroid exceed 200. *)
C14_AcceptIffWhiteCentroid ==
    \A i \in 1 .. Len(fills) :
        fills[i].accepted <=>
            /\ fills[i].count > 800
            /\ WhiteIsh(Data(img, fills[i].y * img.w + fills[i].x))

(* a seed the scan looks at for the first time *)
UnvisitedSeed == pc = "scan" /\ (y * img.w + x) \notin visited

(* C15: an unvisited seed starts a fill if and only if all three of its
   channels exceed 200; every other unvisited seed is only marked visited. *)
C15_SeedStep ==
    (UnvisitedSeed /\ pc' \in {"scan", "fill", "labels"}) =>
        /\ (pc' = "fill") <=> WhiteIsh(Data(img, y * img.w + x))
        /\ (y * img.w + x) \in visited'

C15_FillIffWhiteSeed == [][C15_SeedStep]_vars

(* the pixels of the image that are 4-neighbours of pixel p *)
TrueNeighbours(im, p) ==
    LET px == p % im.w
        py == p \div im.w
    IN  { n \in {p - 1, p + 1, p - im.w, p + im.w} :
            /\ InBuffer(im, n)
            /\ \/ (n \div im.w) = py /\ Abs((n % im.w) - px) = 1
               \/ (n % im.w) = px /\ Abs((n \div im.w) - py) = 1 }

(* the sum of coord(p) over the pixels p of F with lo <= p <= hi *)
RECURSIVE SumOver(_, _, _, _, _)
SumOver(im, F, lo, hi, xs) ==
    IF lo > hi THEN 0
    ELSE IF lo = hi
         THEN IF lo \in F THEN (IF xs THEN lo % im.w ELSE lo \div im.w) ELSE 0
         ELSE LET mid == (lo + hi) \div 2
              IN  SumOver(im, F, lo, mid, xs) + SumOver(im, F, mid + 1, hi, xs)

(* F is the 4-connected component of white-ish pixels that contains s, given
   that every pixel of F was reached through 4-neighbours from s *)
IsComponentOf(im, F, s) ==
    /\ s \in F
    /\ \A p \in F : WhiteIsh(Data(im, p))
    /\ \A p \in F : \A n \in TrueNeighbours(im, p) :
          WhiteIsh(Data(im, n)) => n \in F

(* C16: the pixels a fill counts are the whole 4-connected component of
   white-ish pixels containing its seed, its count is the component's size
   and its centroid is the floor of the component's mean x and mean y. *)
C16_FillIsComponent ==
    fills # <<>> =>
        LET f == fills[Len(fills)]
            n == NumPixels(img)
        IN  /\ IsComponentOf(img, f.pixels, f.seed)
            /\ f.count = Cardinality(f.pixels)
            /\ f.x = SumOver(img, f.pixels, 0, n - 1, TRUE) \div f.count
            /\ f.y = SumOver(img, f.pixels, 0, n - 1, FALSE) \div f.count

(* C17: every pixel added to a fill is a 4-neighbour, in two dimensions, of
   the pixel it was reached from; no pixel is reached across a row boundary. *)
C17_NoWrap ==
    \A e \in added :
        LET fx == e[1] % img.w
            fy == e[1] \div img.w
            tx == e[2] % img.w
            ty == e[2] \div img.w
        IN  /\ InBuffer(img, e[2])
            /\ \/ fy = ty /\ Abs(fx - tx) = 1
               \/ fx = tx /\ Abs(fy - ty) = 1

(* the fill dequeued a pixel of the last column whose successor in the buffer,
   the first pixel of the next row, is white and stays out of the fill *)
C17_Witness ==
    /\ pc = "fill"
    /\ head > 0
    /\ q[head] % img.w = img.w - 1
    /\ WhiteIsh(Data(img, q[head] + 1))
    /\ (q[head] + 1) \notin visited
    /\ added = {}

RECURSIVE SumCounts(_)
SumCounts(fs) == IF fs = <<>> THEN 0 ELSE Head(fs).count + SumCounts(Tail(fs))

(* C18: no pixel belongs to two fills of one run: the pixels of a completed
   fill, accepted or rejected, neither start nor join a later fill, and the
   counts of all fills sum to at most width * height. *)
C18_FillsDisjoint ==
    /\ \A i \in 1 .. Len(fills) : \A j \in 1 .. Len(fills) :
          i < j => fills[i].pixels \cap fills[j].pixels = {}
    /\ \A i \in 1 .. Len(fills) :
          /\ \A e \in added : e[2] \notin fills[i].pixels
          /\ (pc = "fill" /\ head = 0) => q[1] \notin fills[i].pixels
    /\ SumCounts(fills) + (IF pc = "fill" THEN fill.count ELSE 0) <= NumPixels(img)

(* a rejected fill that covered several seeds, then an accepted one *)
C18_Witness ==
    /\ promise.by = "success"
    /\ Len(fills) = 2
    /\ ~fills[1].accepted /\ fills[1].count > 500
    /\ fills[2].accepted
    /\ Len(promise.value.drawn.labels) = 1

(* one label per accepted region, at the region's centroid *)
OneLabelPerRegion(cv) ==
    /\ Len(cv.labels) = Len(regions)
    /\ \A i \in 1 .. Len(regions) :
          /\ cv.labels[i].x = regions[i].x
          /\ cv.labels[i].y = regions[i].y
          /\ cv.labels[i].text = regions[i].id

C19_Order ==
    /\ pc \in {"scan", "fill", "labels"} => canvas = BlankCanvas
    /\ pc = "legend" =>
          /\ OneLabelPerRegion(canvas)
          /\ ~canvas.separator
          /\ canvas.legend = <<>>
    /\ (canvas.separator \/ canvas.legend # <<>>) => OneLabelPerRegion(canvas)
    /\ promise.by = "success" =>
          /\ promise.value.drawn = canvas
          /\ canvas.separator
          /\ canvas.legend = legendColors

C19_Snapshot ==
    /\ img' = img
    /\ (pc # "loading" /\ canvas' # canvas) =>
          /\ regions' = regions
          /\ visited' = visited
          /\ fills' = fills

(* C19: no label is stamped before the seed scan has ended; then one label
   per accepted region is stamped at its centroid, the separator and legend
   follow the labels, and drawing changes neither the pixel data the scan
   classified nor the regions it found. *)
C19_LabelsAfterScan == []C19_Order /\ [][C19_Snapshot]_vars

(* two regions were found and both labels and the legend are drawn *)
C19_Witness ==
    /\ promise.by = "success"
    /\ Len(regions) = 2
    /\ Len(canvas.labels) = 2
    /\ canvas.legend # <<>>

(* a fill loop is left only with head = tail, or by an exception *)
C20_FillRunsOut ==
    (pc = "fill" /\ pc' # "fill") => (head = tail \/ promise'.by = "catch")

(* a resolved run went through the whole seed scan, or ended in a handler
   that resolves with the input *)
C20_ScanEnded ==
    /\ resolves <= 1
    /\ promise.by = "success" => (x = -1 /\ y = -1)
    /\ promise.state = "resolved" <=> resolves = 1

(* C20: the segmentation run terminates: every fill loop comes to head =
   tail unless an exception ends it, the seed scan comes to its end, and the
   promise is then resolved, once. *)
C20_Terminates ==
    /\ []C20_ScanEnded
    /\ [][C20_FillRunsOut]_vars
    /\ (pc = "loading") ~> (pc = "settled" /\ promise.state = "resolved")

(* a run of a long fill that ended in an accepted region, then resolved *)
C20_Witness ==
    /\ img = GreyBridge
    /\ promise.by = "success"
    /\ resolves = 1
    /\ Len(regions) = 1
    /\ x = -1

-----------------------------------------------------------------------------
(* Properties of repeated calls and of the dispatch in generateImage *)

(* C11: two runs of generateTracePage with the same characters and font give
   the same row height, font size, header, guide lines and dash-mask tile;
   nothing depends on a random value or on what an earlier call left. *)
C11_SameGeometry ==
    (tcall = 2 /\ returned.how = "returned") =>
        /\ rowHeight = firstRun.rowHeight
        /\ fontSize = firstRun.fontSize
        /\ returned.value.header = firstRun.page.header
        /\ returned.value.guides = firstRun.page.guides
        /\ returned.value.dashed = firstRun.page.dashed
        /\ returned.value.tile = firstRun.page.tile

(* a second run on several characters that tiled its repeat rows differently
   from the first, the measured widths having changed *)
C11_Witness ==
    /\ tcall = 2
    /\ returned.how = "returned"
    /\ Len(letters) = MaxLetters
    /\ Len(returned.value.guides) = 2 * MaxLetters
    /\ returned.value.tile = StripeTile
    /\ returned.value.glyphs # firstRun.page.glyphs

(* C13: generateImage applies at most one render function: a trace page is
   the compositor's page and no request is made to the service; a number page
   is the segmentation applied to the image the service returned; every other
   mode and type, covers included, gives the service's image untouched. *)
C13_Dispatch ==
    /\ Len(applied) <= 1
    /\ serviceCalls <= 1
    /\ (mode = "trace" /\ type = "page") =>
          /\ serviceCalls = 0
          /\ gpc = "done" => applied = <<Call("generateTracePage", NoValue)>>
          /\ result.state = "resolved" => result.value = Worksheet
    /\ (mode = "number" /\ type = "page") =>
          /\ \A i \in 1 .. Len(applied) :
                applied[i] = Call("processColorByNumber", finalBase64)
          /\ Len(applied) = 1 => serviceCalls = 1
          /\ result.state = "resolved" =>
                /\ Len(applied) = 1
                /\ result.value \in {Annotated, finalBase64}
    /\ ~(mode = "trace" /\ type = "page") /\ ~(mode = "number" /\ type = "page") =>
          /\ applied = <<>>
          /\ result.state = "resolved" =>
                (serviceCalls = 1 /\ result.value = finalBase64)

(* a cover requested in trace mode came back as the service's image *)
C13_Witness ==
    /\ mode = "trace"
    /\ type = "cover"
    /\ gpc = "done"
    /\ serviceCalls = 1
    /\ applied = <<>>
    /\ result = Resolved(finalBase64, "return")

-----------------------------------------------------------------------------
(* Properties of the worksheet's sizes, mask, tiling and display pairs *)

(* C21: for n >= 1 characters the row height is
   min(220, max(120, floor(1384 / (2n)))), with 1384 = 1754 - 270 - 100, and
   the glyph font size is floor(0.65 * row height). *)
C21_Sizes ==
    (tpc \notin {"idle", "called"} /\ tFault # "no_ctx" /\ Len(letters) >= 1) =>
        LET n == Len(letters)
            perRow == 1384 \div (2 * n)
            atLeast == IF perRow > 120 THEN perRow ELSE 120
        IN  /\ AvailableHeight = 1384
            /\ 1384 = 1754 - 270 - 100
            /\ rowHeight = (IF atLeast < 220 THEN atLeast ELSE 220)
            /\ 100 * fontSize <= 65 * rowHeight
            /\ 65 * rowHeight < 100 * (fontSize + 1)

(* four characters: rows of 173 and glyphs of 112 pixels *)
C21_Witness ==
    /\ tpc = "ended"
    /\ returned.how = "returned"
    /\ Len(letters) = 4
    /\ rowHeight = 173
    /\ fontSize = 112

C22_MaskState ==
    /\ tpc = "rows" => (~textCanvas.masked /\ ~page.dashed)
    /\ (tpc = "composite" /\ tFault = "none") =>
          /\ textCanvas.masked
          /\ textCanvas.tile = StripeTile
          /\ ~page.dashed
          /\ page.glyphs = <<>>
    /\ (returned.how = "returned" /\ tFault = "none") =>
          /\ returned.value.dashed
          /\ returned.value.glyphs = textCanvas.glyphs
          /\ Len(returned.value.header) = 1
          /\ Len(returned.value.guides) = 2 * Len(letters)

C22_MaskStep ==
    /\ (~textCanvas.masked /\ textCanvas'.masked) =>
          /\ done = Len(letters)
          /\ textCanvas'.glyphs = textCanvas.glyphs
          /\ page' = page
          /\ tpc' = "composite"
    /\ (textCanvas.masked /\ tpc # "called") => textCanvas' = textCanvas
    /\ (tpc = "composite" /\ tpc' = "ended") =>
          /\ page'.header = page.header
          /\ page'.guides = page.guides

(* C22: the dash mask is applied once, after every glyph is drawn and before
   the glyph surface is composited, and to the glyph surface only: it leaves
   the page surface as it was, and the returned page holds the header and
   every guide line that was drawn. *)
C22_MaskOnGlyphsOnly == []C22_MaskState /\ [][C22_MaskStep]_vars

(* a returned page of two characters: header, four guide rows, dashed glyphs *)
C22_Witness ==
    /\ tpc = "ended"
    /\ tFault = "none"
    /\ returned.how = "returned"
    /\ returned.value.dashed
    /\ Len(returned.value.guides) = 4
    /\ Len(returned.value.glyphs) > 2
    /\ Len(returned.value.header) = 1

(* the glyphs of the repeat row of the k-th character *)
RepeatRowGlyphs(k) ==
    { g \in 1 .. Len(textCanvas.glyphs) :
        textCanvas.glyphs[g].y = page.guides[2 * k - 1].baseline - fontSize * 5 }

(* the glyphs of the single row of the k-th character *)
SingleRowGlyphs(k) ==
    { g \in 1 .. Len(textCanvas.glyphs) :
        textCanvas.glyphs[g].y = page.guides[2 * k].baseline - fontSize * 5 }

(* C23: in the repeat row the pair is drawn from the left margin on, each
   repetition one pair-plus-spacing further, and only where its right edge,
   in the font it is drawn with, is left of the right margin; the single row
   holds exactly one instance at the left margin. *)
C23_Tiling ==
    (tpc \in {"rows", "composite", "ended"} /\ tFault = "none"
     /\ HeaderFontFamily(fontId) = "Nunito, sans-serif") =>
        \A k \in 1 .. done :
            /\ \A g \in RepeatRowGlyphs(k) :
                  /\ textCanvas.glyphs[g].x >= MarginX
                  /\ textCanvas.glyphs[g].x + GlyphWidth(measured, fontSize)
                        < PageWidth - MarginX
            /\ \A g \in RepeatRowGlyphs(k) : \A h \in RepeatRowGlyphs(k) :
                  h = g + 1 =>
                     textCanvas.glyphs[h].x - textCanvas.glyphs[g].x
                        = measured.pairWithSpace
            /\ Cardinality(SingleRowGlyphs(k)) = 1
            /\ \A g \in SingleRowGlyphs(k) : textCanvas.glyphs[g].x = MarginX + 20

(* String.prototype.toUpperCase on one character *)
ToUpperCase(c) ==
    IF \E i \in 1 .. Len(LowerCase) : LowerCase[i] = c
    THEN UpperCase[CHOOSE i \in 1 .. Len(LowerCase) : LowerCase[i] = c]
    ELSE c

(* C24: the pair drawn in both rows of a character c is the uppercase form
   of c followed by its lowercase form, whichever case c is given in. *)
C24_UpperThenLower ==
    (tpc \in {"rows", "composite", "ended"} /\ tFault = "none") =>
        \A k \in 1 .. done :
            \A g \in RepeatRowGlyphs(k) \cup SingleRowGlyphs(k) :
                textCanvas.glyphs[g].text =
                    <<ToUpperCase(letters[k]), ToLowerCase(letters[k])>>

(* C26: for every letter list the trace planner produces for a page count
   of 3..10, every guide line the compositor draws lies inside the page:
   the 2n rows at the clamped row height fit below the header. *)
C26_RowsFitPage ==
    (description \in PlannedDescriptions /\ tFault = "none") =>
        \A g \in 1 .. Len(page.guides) :
            /\ page.guides[g].baseline < PageHeight * 100
            /\ page.guides[g].midline < PageHeight * 100
            /\ page.guides[g].topline < PageHeight * 100

(* the concatenation of a sequence of sequences *)
RECURSIVE Flatten(_)
Flatten(ss) == IF ss = <<>> THEN <<>> ELSE Head(ss) \o Flatten(Tail(ss))

(* C28: for a page count of 1 or more, generateScenes in trace mode returns
   at most pageCount scenes, each built from a non-empty contiguous run of
   the alphabet, the runs concatenated in order are exactly A..Z, and the
   description of each scene, parsed as generateTracePage parses it, yields
   that scene's letters. *)
C28_PlanCoversAlphabet ==
    (ppc = "returned" /\ pageCount >= 1) =>
        /\ Len(scenes) <= pageCount
        /\ Len(slices) = Len(scenes)
        /\ \A k \in 1 .. Len(scenes) :
              /\ slices[k] # <<>>
              /\ \E a \in 1 .. 26 : \E b \in a .. 26 :
                    slices[k] = SubSeq(UpperCase, a, b)
        /\ Flatten(slices) = UpperCase
        /\ \A k \in 1 .. Len(parsed) : parsed[k] = slices[k]

(* eight pages asked for, seven scenes of four and two letters returned and
   every one of them parsed *)
C28_Witness ==
    /\ pageCount = 8
    /\ ppc = "returned"
    /\ Len(scenes) = 7
    /\ Len(parsed) = 7
    /\ parsed[7] = <<"Y", "Z">>

-----------------------------------------------------------------------------
(* Properties of the App: reset, resume, storage and progress *)

(* C25: after handleReset is invoked while generateBookImages is in flight,
   no image of the abandoned run is appended to bookData.images, and the
   state does not become PREVIEW or ERROR until handleStart is invoked
   again. *)
C25_ResetAbandonsRun ==
    /\ \A k \in 1 .. Len(bookData.images) : ~bookData.images[k].stale
    /\ lastEvent = "reset" => state \notin { "PREVIEW", "ERROR" }

(* 0 for the cover, k for the k-th scene *)
Rank(id, sc) ==
    IF id = CoverId THEN 0 ELSE CHOOSE k \in 1 .. Len(sc) : sc[k] = id

(* the number of images of bookData that have the id *)
Copies(id) ==
    Cardinality({ k \in 1 .. Len(bookData.images) : bookData.images[k].id = id })

C27_Requests(run) ==
    /\ \A k \in 1 .. Len(run.requested) :
          /\ run.requested[k] = CoverId => ~HasCover(run.existing)
          /\ run.requested[k] # CoverId =>
                /\ \E j \in 1 .. Len(run.scenes) : run.scenes[j] = run.requested[k]
                /\ ~HasPage(run.existing, run.requested[k])
          /\ k > 1 => Rank(run.requested[k - 1], run.scenes)
                          < Rank(run.requested[k], run.scenes)
    /\ Len(run.requested) =
          (run.completed - Len(run.existing))
              + (IF run.pos \in { "cover", "page" } THEN 1 ELSE 0)
    /\ run.pos = "finishing" =>
          /\ HasCover(run.existing)
                \/ (run.requested # <<>> /\ run.requested[1] = CoverId)
          /\ \A j \in 1 .. Len(run.scenes) :
                \/ HasPage(run.existing, run.scenes[j])
                \/ \E k \in 1 .. Len(run.requested) :
                      run.requested[k] = run.scenes[j]

(* C27: in a fresh or a resumed run with no reset in between, no image is
   requested for a cover or a scene id that is among the existing images,
   the remaining images are requested in order and one at a time, and when
   the state is PREVIEW the images hold exactly one cover and exactly one
   page for each scene. *)
C27_ResumeCompletesBook ==
    ~interrupted =>
        /\ Len(runs) <= 1
        /\ \A r \in 1 .. Len(runs) : C27_Requests(runs[r])
        /\ state = "PREVIEW" =>
              /\ Len(bookData.images) = Len(bookData.scenes) + 1
              /\ Copies(CoverId) = 1
              /\ \A j \in 1 .. Len(bookData.scenes) :
                    Copies(bookData.scenes[j]) = 1

(* a resumed run that found the cover there and asked for the two pages *)
C27_Witness ==
    /\ ~interrupted
    /\ Len(runs) = 1
    /\ runs[1].pos = "finishing"
    /\ Len(runs[1].existing) = 1
    /\ runs[1].requested = <<SceneId(0), SceneId(1)>>
    /\ Len(bookData.images) = 3

(* C29: the save never records the state ERROR, and after a load the state
   is PREVIEW if the save recorded PREVIEW and INPUT otherwise. *)
C29_SaveAndLoad ==
    /\ saved.state # "ERROR"
    /\ lastEvent = "load" =>
          state = (IF saved.state = "PREVIEW" THEN "PREVIEW" ELSE "INPUT")

(* a page loaded from a save that was written while the book was generated *)
C29_Witness ==
    /\ lastEvent = "load"
    /\ saved.state = "GENERATING"
    /\ state = "INPUT"
    /\ bookData = saved.bookData
    /\ Len(bookData.images) >= 1

C30_Range == progress \in 0 .. 100

C30_Step ==
    /\ (GeneratingImages /\ GeneratingImages') => progress' >= progress
    /\ (GeneratingImages /\ state # "PREVIEW" /\ state' = "PREVIEW") =>
          progress' = 100

(* C30: throughout an execution of generateBookImages, fresh or resumed, the
   progress is an integer in 0..100 that never decreases, and it is 100 when
   the state becomes PREVIEW. *)
C30_ProgressMonotone == []C30_Range /\ [][C30_Step]_vars

====
